---- MODULE Spec2Model ----
(***************************************************************************)
(* Model of the document-processing core of task-wizard-scribe             *)
(* (src/src/services/docxProcessor.ts, second revision, lines 805-1833).   *)
(*                                                                         *)
(* Text is modelled at character level: a JavaScript string is a TLA+      *)
(* string, a character is a string of length 1, and every regular          *)
(* expression of the source is an operator that matches it the way the     *)
(* JavaScript engine does (anchored, greedy, left to right).               *)
(***************************************************************************)
EXTENDS Integers, Sequences, FiniteSets, TLC

(***************************************************************************)
(* Characters and strings                                                  *)
(***************************************************************************)
Digit == {"0", "1", "2", "3", "4", "5", "6", "7", "8", "9"}
\* \s of a JavaScript regular expression, restricted to the white space the
\* modelled documents contain.
Space == {" ", "\t", "\n"}
UpperLetters == "ABCDEFGHIJKLMNOPQRSTUVWXYZ"
LowerLetters == "abcdefghijklmnopqrstuvwxyz"
Digits == "0123456789"

\* s[i] of JavaScript (1-based here); "" past the end.
Ch(s, i) == IF i >= 1 /\ i <= Len(s) THEN SubSeq(s, i, i) ELSE ""

\* s.substring(i - 1, j) with 1-based inclusive bounds, clipped to the string.
Sub(s, i, j) ==
  LET a == IF i < 1 THEN 1 ELSE i
      b == IF j > Len(s) THEN Len(s) ELSE j
  IN IF a > b THEN "" ELSE SubSeq(s, a, b)

\* s.substring(i - 1): the rest of the string from position i on.
From(s, i) == Sub(s, i, Len(s))

\* the least element of a set of positions, 0 when it is empty
First(S) == IF S = {} THEN 0 ELSE CHOOSE x \in S : \A y \in S : x <= y

\* 1-based position of character c in string t, 0 when absent.
IndexIn(t, c) == First({k \in 1..Len(t) : Ch(t, k) = c})

UpperSet == {Ch(UpperLetters, k) : k \in 1..Len(UpperLetters)}
LowerSet == {Ch(LowerLetters, k) : k \in 1..Len(LowerLetters)}
\* the lower-case letter of every upper-case letter, and the reverse
LowerOf == [c \in UpperSet |-> Ch(LowerLetters, IndexIn(UpperLetters, c))]
UpperOf == [c \in LowerSet |-> Ch(UpperLetters, IndexIn(LowerLetters, c))]
\* the value of every decimal digit
DigitValue == [c \in Digit |-> IndexIn(Digits, c) - 1]

IsUpper(c) == c \in UpperSet
IsLower(c) == c \in LowerSet
IsLetter(c) == IsUpper(c) \/ IsLower(c)

LowerCh(c) == IF IsUpper(c) THEN LowerOf[c] ELSE c

RECURSIVE toLowerCase(_)
toLowerCase(s) ==
  IF s = "" THEN ""
  ELSE IF Len(s) = 1 THEN LowerCh(s)
  ELSE toLowerCase(Sub(s, 1, Len(s) \div 2)) \o toLowerCase(From(s, Len(s) \div 2 + 1))

\* s.includes(t)
\* whether t occurs in s at position i
OccursAt(s, i, t) == i + Len(t) - 1 <= Len(s) /\ \A k \in 1..Len(t) : Ch(s, i + k - 1) = Ch(t, k)
\* the same under the i flag
OccursAtI(s, i, t) == i + Len(t) - 1 <= Len(s) /\ \A k \in 1..Len(t) : LowerCh(Ch(s, i + k - 1)) = LowerCh(Ch(t, k))

includes(s, t) == \E i \in 1..(Len(s) - Len(t) + 1) : OccursAt(s, i, t)

\* First position >= i whose character is not in class C (Len(s) + 1 at the end).
SkipClass(s, i, C) ==
  IF i > Len(s) THEN i
  ELSE CHOOSE j \in i..(Len(s) + 1) :
         /\ j > Len(s) \/ Ch(s, j) \notin C
         /\ \A k \in i..(j - 1) : Ch(s, k) \in C

\* Last position <= j whose character is no white space (0 when there is none).
SkipBack(s, j) ==
  j + 1 - (CHOOSE k \in 1..(j + 1) :
             /\ k > j \/ Ch(s, j + 1 - k) \notin Space
             /\ \A h \in 1..(k - 1) : Ch(s, j + 1 - h) \in Space)

\* s.trim()
trim(s) == Sub(s, SkipClass(s, 1, Space), SkipBack(s, Len(s)))

\* parseInt(s, 10) of a string of decimal digits.
RECURSIVE parseInt(_)
parseInt(s) ==
  IF s = "" THEN 0
  ELSE 10 * parseInt(Sub(s, 1, Len(s) - 1)) + DigitValue[Ch(s, Len(s))]

\* a padding that also cuts the string to three characters
padStartCut(s) == IF Len(s) >= 3 THEN Sub(s, 1, 3) ELSE IF Len(s) = 2 THEN "0" \o s ELSE IF Len(s) = 1 THEN "00" \o s ELSE "000"

\* s.padStart(3, '0')
padStart3(s) == IF Len(s) >= 3 THEN s ELSE IF Len(s) = 2 THEN "0" \o s ELSE IF Len(s) = 1 THEN "00" \o s ELSE "000"

\* position of the first occurrence of sep in s at or after i, 0 when none
FindFrom(s, i, sep) == First({j \in i..(Len(s) - Len(sep) + 1) : OccursAt(s, j, sep)})

\* s.split(sep) for a literal, non-empty separator
RECURSIVE split(_, _)
split(s, sep) ==
  LET k == FindFrom(s, 1, sep)
  IN IF k = 0 THEN <<s>>
     ELSE <<Sub(s, 1, k - 1)>> \o split(From(s, k + Len(sep)), sep)

\* a.join(sep)
RECURSIVE join(_, _)
join(a, sep) ==
  IF Len(a) = 0 THEN ""
  ELSE IF Len(a) = 1 THEN a[1]
  ELSE a[1] \o sep \o join(Tail(a), sep)

\* a.filter(p) for the predicates the source uses
RECURSIVE FilterNonBlank(_)
FilterNonBlank(a) ==
  IF Len(a) = 0 THEN <<>>
  ELSE (IF trim(a[1]) # "" THEN <<a[1]>> ELSE <<>>) \o FilterNonBlank(Tail(a))

(***************************************************************************)
(* Regular-expression building blocks.  A position 0 means "no match"; a   *)
(* position p >= 1 is the index of the next character to be consumed.      *)
(***************************************************************************)
\* a literal
Lit(s, p, w) == IF p # 0 /\ OccursAt(s, p, w) THEN p + Len(w) ELSE 0
\* a literal under the i flag
LitI(s, p, w) == IF p # 0 /\ OccursAtI(s, p, w) THEN p + Len(w) ELSE 0
\* [C]
One(s, p, C) == IF p # 0 /\ Ch(s, p) \in C THEN p + 1 ELSE 0
\* [C]?  (greedy)
Opt(s, p, C) == IF p = 0 THEN 0 ELSE IF Ch(s, p) \in C THEN p + 1 ELSE p
\* [C]*  (greedy)
Star(s, p, C) == IF p = 0 THEN 0 ELSE SkipClass(s, p, C)
\* [C]+  (greedy)
Plus(s, p, C) == IF p = 0 THEN 0 ELSE IF SkipClass(s, p, C) > p THEN SkipClass(s, p, C) ELSE 0
\* [a-zA-Z]?
OptLetter(s, p) == IF p = 0 THEN 0 ELSE IF IsLetter(Ch(s, p)) THEN p + 1 ELSE p

\* The result of String.prototype.match with one capture group: whether it
\* matched, the captured number, and match[0].length.
NoMatch == [ok |-> FALSE, num |-> 0, len |-> 0]
Match(s, a, b, e) == IF e = 0 THEN NoMatch ELSE [ok |-> TRUE, num |-> parseInt(Sub(s, a, b - 1)), len |-> e - 1]

(***************************************************************************)
(* stepNumberPatterns (docxProcessor.ts 826-836), in source order          *)
(***************************************************************************)
\* /^(\d+)\.?\s+/
stepPattern1(s) ==
  LET d == Plus(s, 1, Digit)
      e == Plus(s, Opt(s, d, {"."}), Space)
  IN Match(s, 1, d, e)

\* /^Step\s+(\d+)\.?\s+/i
stepPattern2(s) ==
  LET a == Plus(s, LitI(s, 1, "Step"), Space)
      d == Plus(s, a, Digit)
      e == Plus(s, Opt(s, d, {"."}), Space)
  IN Match(s, a, d, e)

\* /^(\d+)\)\s+/
stepPattern3(s) ==
  LET d == Plus(s, 1, Digit)
      e == Plus(s, Lit(s, d, ")"), Space)
  IN Match(s, 1, d, e)

\* /^[a-zA-Z]?\s*(\d+)[\.\)]\s+/
stepPattern4(s) ==
  LET a == Star(s, OptLetter(s, 1), Space)
      d == Plus(s, a, Digit)
      e == Plus(s, One(s, d, {".", ")"}), Space)
  IN Match(s, a, d, e)

\* /^Task\s+(\d+)\.?\s+/i
stepPattern5(s) ==
  LET a == Plus(s, LitI(s, 1, "Task"), Space)
      d == Plus(s, a, Digit)
      e == Plus(s, Opt(s, d, {"."}), Space)
  IN Match(s, a, d, e)

\* /^Sl\.\s*No\.\s*(\d+)/i
stepPattern6(s) ==
  LET a == Star(s, LitI(s, 1, "Sl."), Space)
      b == Star(s, LitI(s, a, "No."), Space)
      d == Plus(s, b, Digit)
  IN Match(s, b, d, d)

\* /^(\d+)\s*[\.\)]\s+/
stepPattern7(s) ==
  LET d == Plus(s, 1, Digit)
      e == Plus(s, One(s, Star(s, d, Space), {".", ")"}), Space)
  IN Match(s, 1, d, e)

\* /^[Ss][Ll]\s*\.?\s*[Nn][Oo]\s*\.?\s*(\d+)\s*[\.:]?\s*/
stepPattern8(s) ==
  LET a == Star(s, Opt(s, Star(s, LitI(s, 1, "sl"), Space), {"."}), Space)
      b == Star(s, Opt(s, Star(s, LitI(s, a, "no"), Space), {"."}), Space)
      d == Plus(s, b, Digit)
      e == Star(s, Opt(s, Star(s, d, Space), {".", ":"}), Space)
  IN Match(s, b, d, e)

\* /^[Pp]rocedure\s+(\d+)/
stepPattern9(s) ==
  LET a == Plus(s, Lit(s, One(s, 1, {"P", "p"}), "rocedure"), Space)
      d == Plus(s, a, Digit)
  IN Match(s, a, d, d)

stepNumberPatterns(s) ==
  << stepPattern1(s), stepPattern2(s), stepPattern3(s), stepPattern4(s), stepPattern5(s),
     stepPattern6(s), stepPattern7(s), stepPattern8(s), stepPattern9(s) >>

\* for (const pattern of stepNumberPatterns) { m = s.match(pattern); if (m) break; }
\* : the match of the first pattern that matches, NoMatch when none does.
RECURSIVE firstMatch(_, _)
firstMatch(ms, k) ==
  IF k > Len(ms) THEN NoMatch ELSE IF ms[k].ok THEN ms[k] ELSE firstMatch(ms, k + 1)

matchStep(s) == firstMatch(stepNumberPatterns(s), 1)

(***************************************************************************)
(* specialParagraphPatterns (docxProcessor.ts 839-844).  Each operator     *)
(* gives the position after the matched prefix, 0 when test() is false.    *)
(***************************************************************************)
\* /^Tools\s+used:?\s*/i
toolsPattern(s) == Star(s, Opt(s, LitI(s, Plus(s, LitI(s, 1, "Tools"), Space), "used"), {":"}), Space)
\* /^IMT\s+used:?\s*/i
imtPattern(s) == Star(s, Opt(s, LitI(s, Plus(s, LitI(s, 1, "IMT"), Space), "used"), {":"}), Space)
\* /^Key\s+points:?\s*/i
keyPointsPattern(s) == Star(s, Opt(s, LitI(s, Plus(s, LitI(s, 1, "Key"), Space), "points"), {":"}), Space)
\* /^Note:?\s*/i
notePattern(s) == Star(s, Opt(s, LitI(s, 1, "Note"), {":"}), Space)

\* pattern.test(s)
test(p) == p # 0
\* s.replace(pattern, '').trim() for a pattern that matched up to position p
stripPrefix(s, p) == trim(From(s, p))

(***************************************************************************)
(* headerTerms and isHeaderRow (docxProcessor.ts 847-877)                  *)
(***************************************************************************)
headerTerms ==
  << "sl no", "sl.no", "sl. no", "serial no", "serial number",
     "step no", "task no", "job details", "description", "activity",
     "operation", "procedure", "instruction", "steps", "sl-no",
     "task description", "work instruction", "action", "#", "no.",
     "tasks", "item", "procedures" >>

\* /^\s*([0-9]+|[#])\s*\./.test(line) && /description|details|procedure|step/i.test(line)
hasNumberLabels(line) ==
  LET a == Star(line, 1, Space)
      g == IF Plus(line, a, Digit) # 0 THEN Plus(line, a, Digit) ELSE One(line, a, {"#"})
      e == Lit(line, Star(line, g, Space), ".")
  IN /\ e # 0
     /\ \E w \in {"description", "details", "procedure", "step"} :
          \E i \in 1..Len(line) : OccursAtI(line, i, w)

\* 862-867: for (const term of headerTerms) if (lowerLine.includes(term)) ...
anyHeaderTerm(lowerLine) == \E k \in 1..Len(headerTerms) : includes(lowerLine, headerTerms[k])

\* The loop returns true on the first term found (headerTermsFound >= 1), so
\* the code after the loop runs with headerTermsFound = 0.
isHeaderRow(line) ==
  LET headerTermsFound == 0
      hasTabSeparation == includes(line, "\t")
      hasMultipleSpaceSeparation == \E i \in 1..Len(line) : SkipClass(line, i, Space) >= i + 3
  IN IF anyHeaderTerm(toLowerCase(line)) THEN TRUE
     ELSE \/ ((hasTabSeparation \/ hasMultipleSpaceSeparation) /\ headerTermsFound > 0)
          \/ hasNumberLabels(line)

\* Math.min
Min(a, b) == IF a < b THEN a ELSE b

\* for (i = 0; i < n; i++) if (isHeaderRow(lines[i])) index = i + 1 : the
\* position of the last header row among the first n lines, 0 when none
RECURSIVE lastHeaderRow(_, _)
lastHeaderRow(lines, n) ==
  IF n = 0 THEN 0 ELSE IF isHeaderRow(lines[n]) THEN n ELSE lastHeaderRow(lines, n - 1)

(***************************************************************************)
(* formatTaskNumber (1596-1602) and formatImageId (1084-1086)              *)
(***************************************************************************)
formatTaskNumber(stepNumber, assemblySequenceId) ==
  assemblySequenceId \o ".0." \o padStart3(stepNumber)

formatImageId(figureNumber, assemblyId) ==
  assemblyId \o "-0-" \o padStart3(ToString(figureNumber))

(***************************************************************************)
(* Tasks                                                                   *)
(***************************************************************************)
MissingTaskText == "[This task was not found in the document]"

\* the object literal pushed at 1209-1218, 1235-1244, 1259-1268, 1392-1401,
\* 1428-1437 and 1576-1585
NewTask(no, docTitle, activity, specification) ==
  [ task_no |-> no, type |-> "Operation", eta_sec |-> "", description |-> docTitle,
    activity |-> activity, specification |-> specification,
    attachment |-> "", hasImage |-> FALSE ]

\* currentTaskNum: number | null; null is modelled as -1
Null == -1

(***************************************************************************)
(* extractTasks: the paragraph strategy (docxProcessor.ts 1112-1272)       *)
(***************************************************************************)
\* 1131-1136: the header rows among the first five lines
extractTasksStartIndex(lines) == lastHeaderRow(lines, Min(Len(lines), 5))

\* 1233-1245: the placeholder tasks for the indices last+1 .. num-1
gapTasks(last, num, docTitle, assemblySequenceId) ==
  IF last > 0 /\ num > last + 1
  THEN [k \in 1..(num - last - 1) |->
          NewTask(formatTaskNumber(ToString(last + k), assemblySequenceId), docTitle, MissingTaskText, "")]
  ELSE <<>>

\* 1204-1246: a line that matched a step pattern
extractTasksOnStep(st, trimmedLine, m, docTitle, assemblySequenceId) ==
  LET save == st.currentTask # "" /\ st.currentTaskNum # Null
      saved == IF save
               THEN Append(st.tasks,
                           NewTask(formatTaskNumber(ToString(st.currentTaskNum), assemblySequenceId),
                                   docTitle, trim(st.currentTask), st.currentSpecification))
               ELSE st.tasks
      last == IF save THEN st.currentTaskNum ELSE st.lastFoundTaskNum
      num == m.num
  IN [ st EXCEPT !.tasks = saved \o gapTasks(last, num, docTitle, assemblySequenceId),
                 !.lastFoundTaskNum = last,
                 !.currentSpecification = IF save THEN "" ELSE st.currentSpecification,
                 !.currentTaskNum = num,
                 !.currentTask = trim(From(trimmedLine, m.len + 1)) ]

\* 1143-1253: the body of the loop for const trimmedLine = line.trim()
extractTasksTrimmed(st, trimmedLine, stepMatch, docTitle, assemblySequenceId) ==
  LET isToolsUsed == test(toolsPattern(trimmedLine))
      isIMTUsed == test(imtPattern(trimmedLine))
      isKeyPoints == test(keyPointsPattern(trimmedLine))
      isNote == test(notePattern(trimmedLine))
      hasCurrent == st.currentTaskNum # Null /\ st.currentTaskNum # 0
      taskId == formatTaskNumber(ToString(st.currentTaskNum), assemblySequenceId)
  IN IF trimmedLine = "" \/ isHeaderRow(trimmedLine) THEN st
     ELSE IF (isToolsUsed \/ isIMTUsed) /\ hasCurrent THEN
       IF isToolsUsed
       THEN [st EXCEPT !.toolsData = Append(@, [task_no |-> taskId,
                                               tools |-> stripPrefix(trimmedLine, toolsPattern(trimmedLine))])]
       ELSE [st EXCEPT !.imtData = Append(@, [task_no |-> taskId,
                                             imt |-> stripPrefix(trimmedLine, imtPattern(trimmedLine))])]
     ELSE IF (isKeyPoints \/ isNote) /\ hasCurrent THEN
       LET contentPrefix == IF isKeyPoints THEN "Key points: " ELSE "Note: "
           content == stripPrefix(trimmedLine,
                                  IF isKeyPoints THEN keyPointsPattern(trimmedLine) ELSE notePattern(trimmedLine))
       IN [st EXCEPT !.currentSpecification =
                        IF @ # "" THEN @ \o "\n" \o contentPrefix \o content ELSE contentPrefix \o content]
     ELSE IF stepMatch.ok THEN extractTasksOnStep(st, trimmedLine, stepMatch, docTitle, assemblySequenceId)
     ELSE IF st.currentTask # "" THEN [st EXCEPT !.currentTask = @ \o " " \o trimmedLine]
     ELSE st

\* 1139-1253: one iteration of the loop over the content lines
extractTasksLine(st, line, docTitle, assemblySequenceId) ==
  extractTasksTrimmed(st, trim(line), matchStep(trim(line)), docTitle, assemblySequenceId)

RECURSIVE extractTasksLoop(_, _, _, _, _)
extractTasksLoop(st, lines, i, docTitle, assemblySequenceId) ==
  IF i > Len(lines) THEN st
  ELSE extractTasksLoop(extractTasksLine(st, lines[i], docTitle, assemblySequenceId),
                        lines, i + 1, docTitle, assemblySequenceId)

\* 1255-1271: add the last task if there is one, and return
extractTasksFlush(st, docTitle, assemblySequenceId) ==
  [ tasks |-> IF st.currentTask # "" /\ st.currentTaskNum # Null
              THEN Append(st.tasks,
                          NewTask(formatTaskNumber(ToString(st.currentTaskNum), assemblySequenceId),
                                  docTitle, trim(st.currentTask), st.currentSpecification))
              ELSE st.tasks,
    toolsData |-> st.toolsData, imtData |-> st.imtData ]

extractTasks(lines, docTitle, images, assemblySequenceId, toolsData, imtData) ==
  extractTasksFlush(
    extractTasksLoop([ tasks |-> <<>>, currentTaskNum |-> Null, currentTask |-> "",
                       lastFoundTaskNum |-> 0, currentSpecification |-> "",
                       toolsData |-> toolsData, imtData |-> imtData ],
                     lines, extractTasksStartIndex(lines) + 1, docTitle, assemblySequenceId),
    docTitle, assemblySequenceId)

(***************************************************************************)
(* extractTasksAggressively (docxProcessor.ts 1275-1444)                   *)
(***************************************************************************)
\* content.split(/\n\n|\r\n\r\n/).filter(p => p.trim().length > 0); the
\* modelled documents hold no carriage return
splitParagraphs(content) == FilterNonBlank(split(content, "\n\n"))

ActionVerbs == {"Check", "Ensure", "Remove", "Install", "Attach", "Connect", "Verify", "Place", "Position"}

\* 1375-1376: /^[A-Z][^\.]+\./.test(p) || /^(Check|Ensure|...|Position)/.test(p)
mightBeTask(p) ==
  \/ IsUpper(Ch(p, 1)) /\ FindFrom(p, 2, ".") >= 3
  \/ \E v \in ActionVerbs : Lit(p, 1, v) # 0

\* 1298-1403: the body of the first pass for const trimmedParagraph =
\* paragraph.trim() and the step match m of 1359-1371
aggressiveTrimmed(st, trimmedParagraph, m, docTitle, assemblySequenceId) ==
  LET isToolsUsed == test(toolsPattern(trimmedParagraph))
      isIMTUsed == test(imtPattern(trimmedParagraph))
      isKeyPoints == test(keyPointsPattern(trimmedParagraph))
      isNote == test(notePattern(trimmedParagraph))
      hasCurrent == st.currentTaskNum # Null /\ st.currentTaskNum # 0
      taskId == formatTaskNumber(ToString(st.currentTaskNum), assemblySequenceId)
      guessed == ~m.ok /\ mightBeTask(trimmedParagraph) /\ Len(trimmedParagraph) > 20
      taskNum == IF m.ok THEN m.num ELSE IF guessed THEN st.taskIndex ELSE Null
      restOfText == IF m.ok THEN trim(From(trimmedParagraph, m.len + 1)) ELSE trimmedParagraph
      taskIndex == IF m.ok THEN (IF st.taskIndex > m.num + 1 THEN st.taskIndex ELSE m.num + 1)
                   ELSE IF guessed THEN st.taskIndex + 1 ELSE st.taskIndex
  IN IF Len(trimmedParagraph) < 10 \/ trimmedParagraph = docTitle \/ isHeaderRow(trimmedParagraph) THEN st
     ELSE IF (isToolsUsed \/ isIMTUsed) /\ hasCurrent THEN
       IF isToolsUsed
       THEN [st EXCEPT !.toolsData = Append(@, [task_no |-> taskId,
                                               tools |-> stripPrefix(trimmedParagraph, toolsPattern(trimmedParagraph))])]
       ELSE [st EXCEPT !.imtData = Append(@, [task_no |-> taskId,
                                             imt |-> stripPrefix(trimmedParagraph, imtPattern(trimmedParagraph))])]
     ELSE IF (isKeyPoints \/ isNote) /\ hasCurrent THEN
       LET contentPrefix == IF isKeyPoints THEN "Key points: " ELSE "Note: "
           content == stripPrefix(trimmedParagraph,
                                  IF isKeyPoints THEN keyPointsPattern(trimmedParagraph)
                                  ELSE notePattern(trimmedParagraph))
           spec == IF st.currentSpecification # ""
                   THEN st.currentSpecification \o "\n" \o contentPrefix \o content
                   ELSE contentPrefix \o content
           n == Len(st.tasks)
       IN [st EXCEPT !.currentSpecification = spec,
                     !.tasks = IF n > 0 /\ st.tasks[n].task_no = taskId
                               THEN [st.tasks EXCEPT ![n].specification = spec]
                               ELSE st.tasks]
     ELSE IF taskNum # Null THEN
       [st EXCEPT !.taskIndex = taskIndex,
                  !.currentTaskNum = taskNum,
                  !.tasks = Append(@, NewTask(formatTaskNumber(ToString(taskNum), assemblySequenceId),
                                              docTitle, restOfText, ""))]
     ELSE [st EXCEPT !.taskIndex = taskIndex]

\* 1297-1403: one iteration of the first pass
aggressiveParagraph(st, paragraph, docTitle, assemblySequenceId) ==
  aggressiveTrimmed(st, trim(paragraph), matchStep(trim(paragraph)), docTitle, assemblySequenceId)

RECURSIVE aggressiveLoop(_, _, _, _, _)
aggressiveLoop(st, paragraphs, i, docTitle, assemblySequenceId) ==
  IF i > Len(paragraphs) THEN st
  ELSE aggressiveLoop(aggressiveParagraph(st, paragraphs[i], docTitle, assemblySequenceId),
                      paragraphs, i + 1, docTitle, assemblySequenceId)

\* 1410-1440: the second pass, which numbers the kept paragraphs 1, 2, ...
\* 1413-1426: the paragraphs the second pass skips
desperateSkips(trimmedParagraph, docTitle) ==
  \/ Len(trimmedParagraph) < 15
  \/ trimmedParagraph = docTitle
  \/ isHeaderRow(trimmedParagraph)
  \/ test(toolsPattern(trimmedParagraph))
  \/ test(imtPattern(trimmedParagraph))
  \/ test(keyPointsPattern(trimmedParagraph))
  \/ test(notePattern(trimmedParagraph))

\* 1428-1437
desperateParagraph(tasks, trimmedParagraph, docTitle, assemblySequenceId) ==
  IF desperateSkips(trimmedParagraph, docTitle) THEN tasks
  ELSE Append(tasks, NewTask(formatTaskNumber(ToString(Len(tasks) + 1), assemblySequenceId),
                             docTitle, trimmedParagraph, ""))

RECURSIVE desperateLoop(_, _, _, _, _)
desperateLoop(tasks, paragraphs, i, docTitle, assemblySequenceId) ==
  IF i > Len(paragraphs) THEN tasks
  ELSE desperateLoop(desperateParagraph(tasks, trim(paragraphs[i]), docTitle, assemblySequenceId),
                     paragraphs, i + 1, docTitle, assemblySequenceId)

\* 1406-1443: the second pass runs when the first found no task
aggressiveFinish(st, paragraphs, docTitle, assemblySequenceId) ==
  [ tasks |-> IF Len(st.tasks) = 0
              THEN desperateLoop(<<>>, paragraphs, 1, docTitle, assemblySequenceId)
              ELSE st.tasks,
    toolsData |-> st.toolsData, imtData |-> st.imtData ]

aggressiveParagraphs(paragraphs, docTitle, assemblySequenceId, toolsData, imtData) ==
  aggressiveFinish(
    aggressiveLoop([ tasks |-> <<>>, taskIndex |-> 1, currentTaskNum |-> Null,
                     currentSpecification |-> "", toolsData |-> toolsData, imtData |-> imtData ],
                   paragraphs, 1, docTitle, assemblySequenceId),
    paragraphs, docTitle, assemblySequenceId)

extractTasksAggressively(content, docTitle, images, assemblySequenceId, toolsData, imtData) ==
  aggressiveParagraphs(splitParagraphs(content), docTitle, assemblySequenceId, toolsData, imtData)

(***************************************************************************)
(* extractTasksFromTable (docxProcessor.ts 1447-1593)                      *)
(***************************************************************************)
\* 1466-1474: one past the last header row among the first fifteen lines
tableSkipLines(lines) == lastHeaderRow(lines, Min(Len(lines), 15))

\* s.match(/\d+/): the first run of digits, "" when the string has none
digitsAt(s, j) == IF j = 0 THEN "" ELSE Sub(s, j, SkipClass(s, j, Digit) - 1)

firstDigits(s, i) == digitsAt(s, First({j \in i..Len(s) : Ch(s, j) \in Digit}))

\* s.split(/\s{3,}/)
RECURSIVE splitSpaces3(_, _)
splitSpacesAt(s, j) ==
  IF j = 0 THEN <<s>> ELSE <<Sub(s, 1, j - 1)>> \o splitSpaces3(From(s, SkipClass(s, j, Space)), 1)

splitSpaces3(s, i) == splitSpacesAt(s, First({j \in i..Len(s) : SkipClass(s, j, Space) >= j + 3}))

\* 1547-1570: the first column as the task number
\* 1549-1556: the columns of a line, <<>> when it has no column separator
tableParts(line) ==
  IF includes(line, "\t") THEN FilterNonBlank(split(line, "\t"))
  ELSE IF \E i \in 1..Len(line) : SkipClass(line, i, Space) >= i + 3
       THEN splitSpaces3(line, 1)
       ELSE <<>>

tableNumbered(line, parts, numMatch) ==
  IF numMatch # ""
  THEN [ok |-> TRUE, num |-> parseInt(numMatch), activity |-> trim(join(Tail(parts), " "))]
  ELSE [ok |-> FALSE, num |-> 0, activity |-> line]

tablePartsTask(line, parts) ==
  tableNumbered(line, parts, IF Len(parts) >= 2 THEN firstDigits(parts[1], 1) ELSE "")

tableColumns(line) == tablePartsTask(line, tableParts(line))

\* 1477-1590: one iteration of the loop over the content lines
tableTrimmed(st, line, m, col, docTitle, assemblySequenceId) ==
  LET isToolsUsed == test(toolsPattern(line))
      isIMTUsed == test(imtPattern(line))
      isKeyPoints == test(keyPointsPattern(line))
      isNote == test(notePattern(line))
      n == Len(st.tasks)
  IN IF isHeaderRow(line) THEN st
     ELSE IF isToolsUsed \/ isIMTUsed THEN
       IF n = 0 THEN st
       ELSE [st EXCEPT
               !.toolsData = IF isToolsUsed
                             THEN Append(@, [task_no |-> st.tasks[n].task_no,
                                             tools |-> stripPrefix(line, toolsPattern(line))])
                             ELSE @,
               !.imtData = IF isIMTUsed
                           THEN Append(@, [task_no |-> st.tasks[n].task_no,
                                           imt |-> stripPrefix(line, imtPattern(line))])
                           ELSE @]
     ELSE IF isKeyPoints \/ isNote THEN
       IF n = 0 THEN st
       ELSE LET contentPrefix == IF isKeyPoints THEN "Key points: " ELSE "Note: "
                content == stripPrefix(line, IF isKeyPoints THEN keyPointsPattern(line) ELSE notePattern(line))
            IN [st EXCEPT !.tasks[n].specification =
                             IF @ # "" THEN @ \o "\n" \o contentPrefix \o content
                             ELSE contentPrefix \o content]
     ELSE IF m.ok THEN
       [st EXCEPT !.tasks = Append(@, NewTask(formatTaskNumber(ToString(m.num), assemblySequenceId),
                                              docTitle, trim(From(line, m.len + 1)), ""))]
     ELSE IF col.ok THEN
       [st EXCEPT !.tasks = Append(@, NewTask(formatTaskNumber(ToString(col.num), assemblySequenceId),
                                              docTitle, col.activity, ""))]
     ELSE st

tableLine(st, rawLine, docTitle, assemblySequenceId) ==
  tableTrimmed(st, trim(rawLine), matchStep(trim(rawLine)), tableColumns(trim(rawLine)),
               docTitle, assemblySequenceId)

RECURSIVE tableLoop(_, _, _, _, _)
tableLoop(st, lines, i, docTitle, assemblySequenceId) ==
  IF i > Len(lines) THEN st
  ELSE tableLoop(tableLine(st, lines[i], docTitle, assemblySequenceId),
                 lines, i + 1, docTitle, assemblySequenceId)

tableLines(lines, docTitle, assemblySequenceId, toolsData, imtData) ==
  tableLoop([tasks |-> <<>>, toolsData |-> toolsData, imtData |-> imtData],
            lines, tableSkipLines(lines) + 1, docTitle, assemblySequenceId)

extractTasksFromTable(content, docTitle, images, assemblySequenceId, toolsData, imtData) ==
  tableLines(FilterNonBlank(split(content, "\n")), docTitle, assemblySequenceId, toolsData, imtData)

(***************************************************************************)
(* Figure references                                                       *)
(***************************************************************************)
\* the words of the figure patterns, in the order of mapImagesToTasks
\* (1005-1012); "fig" is followed by an optional "."
figureWords == <<"figure", "fig", "photo", "picture", "image", "illustration">>

\* One figure pattern tried at position i.  ignoreCase is the i flag of
\* mapImagesToTasks (/figure\s+(\d+)/gi); without it the pattern is the one
\* of extractImages (/[Ff]igure\s+(\d+)/g), whose first letter alone may be
\* upper case.
figureWordAt(s, i, word, ignoreCase) ==
  IF ignoreCase THEN LitI(s, i, word)
  ELSE Lit(s, One(s, i, {Ch(word, 1), UpperOf[Ch(word, 1)]}), From(word, 2))

\* the capture group (\d+) from position b
figureNumberAt(s, b, d) ==
  IF d = 0 THEN [ok |-> FALSE, num |-> 0, end |-> 0]
  ELSE [ok |-> TRUE, num |-> parseInt(Sub(s, b, d - 1)), end |-> d]

figureSpacesAt(s, b) == figureNumberAt(s, b, Plus(s, b, Digit))

figureAt(s, i, word, ignoreCase) ==
  figureSpacesAt(s, Plus(s, IF word = "fig" THEN Opt(s, figureWordAt(s, i, word, ignoreCase), {"."})
                            ELSE figureWordAt(s, i, word, ignoreCase),
                         Space))

\* while ((match = pattern.exec(s)) !== null) ... from lastIndex = i - 1: the
\* captured numbers of the successive matches
\* pattern.exec(s) from lastIndex = i - 1: the position of the next match, or 0
execIndex(s, i, word, ignoreCase) ==
  First({j \in i..Len(s) : LowerCh(Ch(s, j)) = Ch(word, 1) /\ figureAt(s, j, word, ignoreCase).ok})

RECURSIVE execAll(_, _, _, _)
execFrom(s, word, ignoreCase, j) ==
  IF j = 0 THEN <<>>
  ELSE <<figureAt(s, j, word, ignoreCase).num>>
       \o execAll(s, figureAt(s, j, word, ignoreCase).end, word, ignoreCase)

execAll(s, i, word, ignoreCase) == execFrom(s, word, ignoreCase, execIndex(s, i, word, ignoreCase))

\* the numbers all six patterns find in s, pattern by pattern
RECURSIVE figureNumbersFrom(_, _, _)
figureNumbersFrom(s, k, ignoreCase) ==
  IF k > Len(figureWords) THEN <<>>
  ELSE execAll(s, 1, figureWords[k], ignoreCase) \o figureNumbersFrom(s, k + 1, ignoreCase)

\* the set as an ascending sequence: Array.from(set).sort((a, b) => a - b)
RECURSIVE sortAscending(_)
sortFrom(S, m) == <<m>> \o sortAscending(S \ {m})

\* the set as a descending sequence
sortDescending(S) ==
  CHOOSE q \in [1..Cardinality(S) -> S] :
    /\ {q[i] : i \in 1..Cardinality(S)} = S
    /\ \A i \in 1..(Cardinality(S) - 1) : q[i] > q[i + 1]

sortAscending(S) == IF S = {} THEN <<>> ELSE sortFrom(S, CHOOSE x \in S : \A y \in S : x <= y)

Range(a) == {a[i] : i \in DOMAIN a}

\* if (!a.includes(x)) a.push(x), for every x of xs in order
RECURSIVE pushUnique(_, _)
pushUnique(a, xs) ==
  IF Len(xs) = 0 THEN a
  ELSE pushUnique(IF xs[1] \in Range(a) THEN a ELSE Append(a, xs[1]), Tail(xs))

(***************************************************************************)
(* extractImages (docxProcessor.ts 1605-1733)                              *)
(***************************************************************************)
\* An image record; the blob is identified by the media file it was read from.
ImageRecord(id, mediaFile) == [task_no |-> id, imageData |-> mediaFile]

\* records whose synthetic numbers continue from the count of the figure
\* numbers instead of from their maximum
imageRecordsByCount(media, sortedFigureNumbers, f, m, assemblySequenceId) ==
  IF f > 0 /\ m > 0
  THEN [i \in 1..Min(f, m) |->
          ImageRecord(assemblySequenceId \o "-0-" \o padStart3(ToString(sortedFigureNumbers[i])), media[i])]
       \o [j \in 1..(IF m > f THEN m - f ELSE 0) |->
             ImageRecord(assemblySequenceId \o "-0-" \o padStart3(ToString(f + j)), media[f + j])]
  ELSE [i \in 1..m |-> ImageRecord(assemblySequenceId \o "-0-" \o padStart3(ToString(i)), media[i])]

\* readable: word/document.xml and word/_rels/document.xml.rels were found
\* and nothing threw; media: the files under word/media/ in the order the
\* archive lists them.
\* 1673-1725: the records for the media files, given the sorted figure numbers
imageRecords(media, sortedFigureNumbers, f, m, assemblySequenceId) ==
  IF f > 0 /\ m > 0
  THEN [i \in 1..Min(f, m) |->
          ImageRecord(assemblySequenceId \o "-0-" \o padStart3(ToString(sortedFigureNumbers[i])), media[i])]
       \o [j \in 1..(IF m > f THEN m - f ELSE 0) |->
             ImageRecord(assemblySequenceId \o "-0-" \o padStart3(ToString(sortedFigureNumbers[f] + j)),
                         media[f + j])]
  ELSE [i \in 1..m |-> ImageRecord(assemblySequenceId \o "-0-" \o padStart3(ToString(i)), media[i])]

imagesForFigures(media, sortedFigureNumbers, assemblySequenceId) ==
  imageRecords(media, sortedFigureNumbers, Len(sortedFigureNumbers), Len(media), assemblySequenceId)

extractImages(readable, media, htmlContent, assemblySequenceId) ==
  IF ~readable THEN <<>>
  ELSE imagesForFigures(media, sortAscending(Range(figureNumbersFrom(htmlContent, 1, FALSE))),
                        assemblySequenceId)

(***************************************************************************)
(* mapImagesToTasks (docxProcessor.ts 996-1081)                            *)
(***************************************************************************)
\* 1014-1022: computed from the document text and never read afterwards
figureReferences(documentText) == figureNumbersFrom(documentText, 1, TRUE)

\* task.task_no?.split('.')[0] || '1'
orOne(s) == IF s = "" THEN "1" ELSE s
assemblyPrefix(task_no) == orOne(split(task_no, ".")[1])

RECURSIVE imageIds(_, _)
imageIds(nums, prefix) ==
  IF Len(nums) = 0 THEN <<>> ELSE <<formatImageId(nums[1], prefix)>> \o imageIds(Tail(nums), prefix)

\* 1027-1042: the image ids of the figure references of one task
taskFigures(task) ==
  pushUnique(<<>>, imageIds(figureNumbersFrom(task.activity, 1, TRUE), assemblyPrefix(task.task_no)))

\* taskImageMapping[key] = value
setKey(map, key, value) == [k \in DOMAIN map \cup {key} |-> IF k = key THEN value ELSE map[k]]

\* 1025-1048: tasks.forEach, storing the non-empty reference lists by task_no
RECURSIVE mapByReference(_, _, _)
setReferences(map, task, taskImages) ==
  IF Len(taskImages) > 0 THEN setKey(map, task.task_no, taskImages) ELSE map

mapByReference(map, tasks, i) ==
  IF i > Len(tasks) THEN map
  ELSE mapByReference(setReferences(map, tasks[i], taskFigures(tasks[i])), tasks, i + 1)

\* Math.ceil(a / b)
ceilDiv(a, b) == (a + b - 1) \div b

\* 1057-1069: tasks.forEach((task, index) => ...), index = i - 1
RECURSIVE mapEvenly(_, _, _, _)
mapEvenly(map, tasks, images, i) ==
  IF i > Len(tasks) THEN map
  ELSE LET imagesPerTask == ceilDiv(Len(images), Len(tasks))
           start == (i - 1) * imagesPerTask
           end == IF start + imagesPerTask < Len(images) THEN start + imagesPerTask ELSE Len(images)
           taskImages == [k \in 1..(end - start) |-> images[start + k].task_no]
       IN mapEvenly(IF start < Len(images) THEN setKey(map, tasks[i].task_no, taskImages) ELSE map,
                    tasks, images, i + 1)

\* the mapping after both methods (1025-1070)
\* a mapping without the even distribution
distributeNever(byRef, tasks, images) == byRef

\* 1051-1070: distribute evenly when no task has a figure reference
distributeIfEmpty(byRef, tasks, images) ==
  IF DOMAIN byRef = {} /\ Len(tasks) > 0 /\ Len(images) > 0
  THEN mapEvenly(byRef, tasks, images, 1)
  ELSE byRef

taskImageMapping(tasks, images) == distributeIfEmpty(mapByReference(<<>>, tasks, 1), tasks, images)

\* 1073-1080: attachment and hasImage of one task
withImages(task, taskImages) ==
  [task EXCEPT !.attachment = join(taskImages, ", "), !.hasImage = Len(taskImages) > 0]

applyMapping(tasks, map) ==
  [i \in 1..Len(tasks) |->
     withImages(tasks[i], IF tasks[i].task_no \in DOMAIN map THEN map[tasks[i].task_no] ELSE <<>>)]

mapImagesToTasks(tasks, images, documentText) == applyMapping(tasks, taskImageMapping(tasks, images))

(***************************************************************************)
(* detectTableStructure (docxProcessor.ts 1089-1109)                       *)
(***************************************************************************)
\* first position >= i whose character is in class C (Len(s) + 1 at the end)
SkipUntil(s, i, C) ==
  IF i > Len(s) THEN i
  ELSE CHOOSE j \in i..(Len(s) + 1) :
         /\ j > Len(s) \/ Ch(s, j) \in C
         /\ \A k \in i..(j - 1) : Ch(s, k) \notin C
\* [^C]+  (greedy)
PlusNot(s, p, C) == IF p = 0 \/ p > Len(s) THEN 0 ELSE IF SkipUntil(s, p, C) > p THEN SkipUntil(s, p, C) ELSE 0
\* \s{2,}  (greedy)
Plus2(s, p, C) == IF p = 0 THEN 0 ELSE IF SkipClass(s, p, C) >= p + 2 THEN SkipClass(s, p, C) ELSE 0

\* /\t[^\t]+\t[^\t]+/ tried at position i: the position after the match, or 0
tabIndicatorAt(s, i) == PlusNot(s, Lit(s, PlusNot(s, Lit(s, i, "\t"), {"\t"}), "\t"), {"\t"})
\* /\s{2,}[^\s]+\s{2,}[^\s]+/ tried at position i
spaceIndicatorAt(s, i) == PlusNot(s, Plus2(s, PlusNot(s, Plus2(s, i, Space), Space), Space), Space)

indicatorAt(s, i, k) == IF k = 1 THEN tabIndicatorAt(s, i) ELSE spaceIndicatorAt(s, i)

\* the first match at or after position i: the position after it, or 0
searchFrom(s, k, j) == IF j = 0 THEN 0 ELSE indicatorAt(s, j, k)

\* a match can only begin at a tab (k = 1) or at two white-space characters
indicatorStart(s, j, k) ==
  IF k = 1 THEN Ch(s, j) = "\t" ELSE Ch(s, j) \in Space /\ Ch(s, j + 1) \in Space

searchIndicator(s, i, k) ==
  searchFrom(s, k, First({j \in i..Len(s) : indicatorStart(s, j, k) /\ indicatorAt(s, j, k) # 0}))

\* RegExp.prototype.test of a /g pattern: the search starts at lastIndex and
\* leaves lastIndex after the match, or 0 when there is none
testResult(e) == [found |-> e # 0, lastIndex |-> IF e = 0 THEN 0 ELSE e - 1]

testGlobal(s, lastIndex, k) ==
  testResult(IF lastIndex > Len(s) THEN 0 ELSE searchIndicator(s, lastIndex + 1, k))

\* /^\d+\.\s+[^\n]+\n\d+\.\s+/m : it has no g flag, so it keeps no cursor
numberedListIndicator(s) ==
  \E i \in 1..Len(s) :
    /\ i = 1 \/ Ch(s, i - 1) = "\n"
    /\ LET p == Lit(s, Plus(s, i, Digit), ".")
       IN /\ p # 0
          /\ \E q \in (p + 1)..SkipClass(s, p, Space) :
               LET r == SkipUntil(s, q, {"\n"})
               IN /\ r > q
                  /\ Plus(s, Lit(s, Plus(s, Lit(s, r, "\n"), Digit), "."), Space) # 0

\* 1101-1105: one line against tableIndicators.some(pattern => pattern.test(line));
\* st holds the count and the cursors of the two /g patterns
detectTested(st, line, t1, t2) ==
  IF t1.found THEN [st EXCEPT !.tableLineCount = @ + 1, !.lastIndex1 = t1.lastIndex]
  ELSE IF t2.found
       THEN [st EXCEPT !.tableLineCount = @ + 1, !.lastIndex1 = 0, !.lastIndex2 = t2.lastIndex]
       ELSE [st EXCEPT !.tableLineCount = IF numberedListIndicator(line) THEN @ + 1 ELSE @,
                       !.lastIndex1 = 0, !.lastIndex2 = 0]

detectLine(st, line) ==
  detectTested(st, line, testGlobal(line, st.lastIndex1, 1), testGlobal(line, st.lastIndex2, 2))

RECURSIVE detectLoop(_, _, _)
detectLoop(st, lines, i) ==
  IF i > Len(lines) THEN st ELSE detectLoop(detectLine(st, lines[i]), lines, i + 1)

\* tableLineCount > lines.length * 0.2
detectLines(lines) ==
  10 * detectLoop([tableLineCount |-> 0, lastIndex1 |-> 0, lastIndex2 |-> 0], lines, 1).tableLineCount
    > 2 * Len(lines)

detectTableStructure(content) == detectLines(split(content, "\n"))

(***************************************************************************)
(* The document-to-text converters (mammoth) that processDocument calls    *)
(***************************************************************************)
\* mammoth.convertToHtml (890-892): every non-blank line of the text is
\* rendered as a paragraph element
RECURSIVE paragraphsHtml(_)
paragraphsHtml(lines) ==
  IF Len(lines) = 0 THEN "" ELSE "<p>" \o lines[1] \o "</p>" \o paragraphsHtml(Tail(lines))

convertToHtml(text) == paragraphsHtml(FilterNonBlank(split(text, "\n")))

(***************************************************************************)
(* Bounds and inputs                                                       *)
(***************************************************************************)
\* lines of a document body
MaxLines == 3
\* media files in the archive
MaxMedia == 2

\* the files under word/media/, in archive order
mediaFiles(n) == [i \in 1..n |-> "image" \o ToString(i) \o ".png"]

\* all sequences over V of length at most n
SeqsUpTo(V, n) == UNION {[1..k -> V] : k \in 0..n}

\* the raw text of a document: every line followed by the paragraph break
RECURSIVE rawText(_, _)
rawText(doc, sep) == IF Len(doc) = 0 THEN "" ELSE doc[1] \o sep \o rawText(Tail(doc), sep)

\* The lines the documents are made of.
OpenStep == "1. Open the panel."
FigureStep == "2. See Figure 1 for wiring."
CloseStep == "5. Close the panel."
ToolsLine == "Tools used: screwdriver"
ToolsSentence == "Tools used: wrench and gauge."
ToolsNumbered == "Tools used: #2 screwdriver"
ImtLine == "IMT used: torque meter"
NoteLine == "Note: wear gloves"
KeyPointsLine == "Key points: torque to 5 Nm"
ShortAction == "Check bolts"
ActionLine == "Check the oil level before starting."
HeadingLine == "Parts description"
BareStep == "SLNO 1"
PlainLine == "Open the panel."
NumberedRow == "1\tFit the cover\tM6 bolt"
PlainRow == "Cover\tM6 bolt\t5 Nm torque"

\* the four steps in front of the bodies of the long documents
LeadingSteps == <<"1. Unpack the kit.", "2. Sort the bolts.", "3. Fit the frame.", "4. Fit the cover.">>

\* A family of input documents: an optional title line, leading lines, body
\* lines drawn from a vocabulary, the paragraph break that follows each line,
\* the numbers of media files and whether the archive's parts can be read.
Families ==
  << [ titles |-> {<<"Panel Assembly">>}, leading |-> <<>>, vocab |-> {OpenStep, FigureStep, CloseStep},
       seps |-> {"\n"}, media |-> 0..MaxMedia, readable |-> BOOLEAN ],
     [ titles |-> {<<>>, <<"Title">>}, leading |-> <<>>, vocab |-> {OpenStep, FigureStep, ToolsLine},
       seps |-> {"\n", "\n\n"}, media |-> {1}, readable |-> {TRUE} ],
     [ titles |-> {<<"Panel Assembly">>}, leading |-> LeadingSteps,
       vocab |-> {CloseStep, ToolsNumbered, ImtLine, NoteLine},
       seps |-> {"\n"}, media |-> {0}, readable |-> {TRUE} ],
     [ titles |-> {<<"Panel Assembly">>}, leading |-> <<>>,
       vocab |-> {ActionLine, OpenStep, HeadingLine, ToolsSentence},
       seps |-> {"\n\n"}, media |-> {1}, readable |-> {TRUE} ],
     [ titles |-> {<<>>, <<"Panel Assembly">>}, leading |-> <<>>,
       vocab |-> {NumberedRow, PlainRow, ToolsLine},
       seps |-> {"\n"}, media |-> {0}, readable |-> {TRUE} ],
     [ titles |-> {<<"Panel Assembly">>}, leading |-> <<>>,
       vocab |-> {BareStep, PlainLine, FigureStep, NoteLine},
       seps |-> {"\n"}, media |-> {1}, readable |-> {TRUE} ],
     [ titles |-> {<<"Panel Assembly">>}, leading |-> <<ActionLine, NoteLine>>,
       vocab |-> {ActionLine, NoteLine, KeyPointsLine},
       seps |-> {"\n\n"}, media |-> {0}, readable |-> {TRUE} ],
     [ titles |-> {<<>>, <<"Panel Assembly">>}, leading |-> <<>>, vocab |-> {ShortAction, ActionLine},
       seps |-> {"\n\n"}, media |-> {0}, readable |-> {TRUE} ] >>

AssemblyIds == {"1"}

(***************************************************************************)
(* processDocument (docxProcessor.ts 880-993) as a state machine           *)
(***************************************************************************)
VARIABLES
  text,              \* result.value: the raw text of the uploaded file
  media,             \* the media files of the archive
  readable,          \* whether the archive's document and relationship parts can be read
  asmId,             \* assemblySequenceId
  pc,                \* position in processDocument
  lines, docTitle, startLineIndex, images, hasTableStructure, methodsToTry,
  tasks, toolsData, imtData,
  log,               \* the strategies tried so far ("Trying ...-based task extraction"), with their results
  error,             \* the message of the error thrown last, "" when none
  parsable,          \* whether mammoth can read the uploaded file
  results,           \* what the calls of processDocument made so far returned or threw
  page,              \* the page whose handlers run: "Index.tsx", "part_002" or "part_003"
  form,              \* the input fields assemblySequenceId and assemblyName
  ui,                \* the React state of the page
  uiPc,              \* position of the running handler, "idle" when none runs
  closure,           \* the React state the running handler was created with
  toasts,            \* the titles of the toasts shown so far
  started,           \* the assemblySequenceId of every processDocument call of the page
  writers,           \* which of the spreadsheet and archive writers threw in the run of handleFileSelect
  formatIn,          \* the arguments of a formatTaskNumber call
  formatOut,         \* its result
  uploader           \* the state of the FileUploader component and what it did

\* the variables of processDocument
docVars == << text, media, readable, asmId, pc, lines, docTitle, startLineIndex, images,
              hasTableStructure, methodsToTry, tasks, toolsData, imtData, log, error, parsable >>

\* the variables of the pages
uiVars == << page, form, ui, uiPc, closure, toasts, started, writers >>

formatVars == << formatIn, formatOut >>

\* what a step of processDocument leaves alone
others == << results, uiVars, formatVars, uploader >>

vars == << docVars, results, uiVars, formatVars, uploader >>

inputs == << text, media, readable, asmId, parsable >>

InputOk ==
  \E k \in 1..Len(Families) : \E t \in Families[k].titles : \E b \in SeqsUpTo(Families[k].vocab, MaxLines) :
    \E sep \in Families[k].seps : \E n \in Families[k].media :
      /\ text = rawText(t \o Families[k].leading \o b, sep)
      /\ media = mediaFiles(n)
      /\ readable \in Families[k].readable

\* no page is open
NoPage ==
  /\ page = "none"
  /\ form = [assemblySequenceId |-> "1", assemblyName |-> ""]
  /\ ui = <<>>
  /\ uiPc = "idle"
  /\ closure = <<>>
  /\ toasts = <<>>
  /\ started = <<>>
  /\ writers = "none"

\* no formatTaskNumber call is examined on its own
NoFormat == formatIn = <<>> /\ formatOut = ""

\* no FileUploader is examined on its own
NoUploader == uploader = <<>>

\* the locals of a processDocument call that has not run yet
Fresh ==
  /\ lines = <<>>
  /\ docTitle = ""
  /\ startLineIndex = 0
  /\ images = <<>>
  /\ hasTableStructure = FALSE
  /\ methodsToTry = <<>>
  /\ tasks = <<>>
  /\ toolsData = <<>>
  /\ imtData = <<>>
  /\ log = <<>>
  /\ error = ""

\* one call of processDocument on a file mammoth can read, or on one it cannot
Init ==
  /\ \/ InputOk /\ parsable = TRUE
     \/ text = "" /\ media = <<>> /\ readable = FALSE /\ parsable = FALSE
  /\ asmId \in AssemblyIds
  /\ pc = "start"
  /\ Fresh
  /\ results = <<>>
  /\ NoPage
  /\ NoFormat
  /\ NoUploader

\* 900-902
EmptyDocumentError == "The document appears to be empty. Please check the file content."
\* 884-887: what mammoth throws on a file that is no .docx archive
UnreadableError == "Can't find end of central directory : is this a zip file ?"
\* 989-992
GenericError == "Failed to process the document. Please check the file format."

\* an empty check that lets an empty document through to the image extraction
afterReadLate(ls) == IF Len(ls) = 0 THEN "images" ELSE "title"

\* 900: the position after the lines were read
afterRead(ls) == IF Len(ls) = 0 THEN "catch" ELSE "title"

\* 884-902: read the raw text and split it into non-blank lines; a file
\* mammoth cannot read and an empty document throw
ReadText ==
  /\ pc = "start"
  /\ IF ~parsable
     THEN lines' = lines /\ pc' = "catch" /\ error' = UnreadableError
     ELSE /\ lines' = FilterNonBlank(split(text, "\n"))
          /\ pc' = afterRead(lines')
          /\ error' = IF Len(lines') = 0 THEN EmptyDocumentError ELSE error
  /\ UNCHANGED << inputs, others, docTitle, startLineIndex, images, hasTableStructure, methodsToTry,
                  tasks, toolsData, imtData, log >>

\* 989-992: the catch logs the error and throws the generic one in its place
Catch ==
  /\ pc = "catch"
  /\ error' = GenericError
  /\ pc' = "failed"
  /\ UNCHANGED << inputs, others, lines, docTitle, startLineIndex, images, hasTableStructure,
                  methodsToTry, tasks, toolsData, imtData, log >>

\* 904-923: the first of the first five lines that is no header row and has
\* more than 5 and fewer than 100 characters, else the first line
RECURSIVE titleFrom(_, _)
titleFrom(ls, i) ==
  IF i > Min(5, Len(ls)) THEN 1
  ELSE IF ~isHeaderRow(ls[i]) /\ Len(ls[i]) > 5 /\ Len(ls[i]) < 100 THEN i
  ELSE titleFrom(ls, i + 1)

titleIndex(ls) == titleFrom(ls, 1)

PickTitle ==
  /\ pc = "title"
  /\ docTitle' = trim(lines[titleIndex(lines)])
  /\ startLineIndex' = titleIndex(lines)
  /\ pc' = "images"
  /\ UNCHANGED << inputs, others, lines, images, hasTableStructure, methodsToTry, tasks, toolsData, imtData, log, error >>

\* 927-929
ExtractImages ==
  /\ pc = "images"
  /\ images' = extractImages(readable, media, convertToHtml(text), asmId)
  /\ pc' = "detect"
  /\ UNCHANGED << inputs, others, lines, docTitle, startLineIndex, hasTableStructure, methodsToTry,
                  tasks, toolsData, imtData, log, error >>

\* 939-960: the order of the strategies
strategyOrder(table) ==
  IF table THEN <<"table", "paragraph", "aggressive">> ELSE <<"paragraph", "table", "aggressive">>

\* an array that outlives the call and still holds what the call before left in it
keptArray(previous) == previous

\* 935-937: let tasks = [], toolsData = [], imtData = []; previous is what
\* the call before left under the same name
newArray(previous) == <<>>

\* 931-960
DetectStructure ==
  /\ pc = "detect"
  /\ hasTableStructure' = detectTableStructure(text)
  /\ methodsToTry' = strategyOrder(hasTableStructure')
  /\ tasks' = newArray(tasks)
  /\ toolsData' = newArray(toolsData)
  /\ imtData' = newArray(imtData)
  /\ pc' = "cascade"
  /\ UNCHANGED << inputs, others, lines, docTitle, startLineIndex, images, log, error >>

\* the drop of the first n elements: a.slice(n)
slice(a, n) == SubSeq(a, n + 1, Len(a))

\* method.fn() of 939-943
runMethod(name) ==
  IF name = "table" THEN extractTasksFromTable(text, docTitle, images, asmId, toolsData, imtData)
  ELSE IF name = "paragraph"
       THEN extractTasks(slice(lines, startLineIndex), docTitle, images, asmId, toolsData, imtData)
       ELSE extractTasksAggressively(text, docTitle, images, asmId, toolsData, imtData)

\* a cascade that goes on after a strategy that found tasks
cascadeNeverBreaks(r, tried) == tried < Len(methodsToTry)

\* 971-974: whether the loop goes on after a strategy returned r
cascadeContinues(r, tried) == Len(r.tasks) = 0 /\ tried < Len(methodsToTry)

\* 966-974: the assignments from the result r of a strategy
takeResult(name, r) ==
  /\ tasks' = r.tasks
  /\ toolsData' = r.toolsData
  /\ imtData' = r.imtData
  /\ log' = Append(log, [name |-> name, tasks |-> r.tasks])
  /\ pc' = IF cascadeContinues(r, Len(log) + 1) THEN "cascade" ELSE "map"

\* 963-975: one iteration of the loop over methodsToTry
TryMethod(name) ==
  /\ pc = "cascade"
  /\ Len(log) < Len(methodsToTry)
  /\ methodsToTry[Len(log) + 1] = name
  /\ takeResult(name, runMethod(name))
  /\ UNCHANGED << inputs, others, lines, docTitle, startLineIndex, images, hasTableStructure, methodsToTry, error >>

TryTable == TryMethod("table")
TryParagraph == TryMethod("paragraph")
TryAggressive == TryMethod("aggressive")

\* 979-988: map the images and return
MapImages ==
  /\ pc = "map"
  /\ tasks' = mapImagesToTasks(tasks, images, text)
  /\ pc' = "done"
  /\ UNCHANGED << inputs, others, lines, docTitle, startLineIndex, images, hasTableStructure, methodsToTry,
                  toolsData, imtData, log, error >>

Next ==
  \/ ReadText
  \/ Catch
  \/ PickTitle
  \/ ExtractImages
  \/ DetectStructure
  \/ TryTable
  \/ TryParagraph
  \/ TryAggressive
  \/ MapImages

Spec == Init /\ [][Next]_vars

(***************************************************************************)
(* Vocabulary of the properties                                            *)
(***************************************************************************)
taskNumbers(ts) == [i \in 1..Len(ts) |-> ts[i].task_no]

\* the step index a task number was formatted from
stepIndexOf(task_no) == parseInt(split(task_no, ".")[3])

strictlyIncreasing(q) == \A i \in 1..(Len(q) - 1) : q[i] < q[i + 1]

\* the positions of the log at which strategy name ran
ranAt(name) == {e \in 1..Len(log) : log[e].name = name}

\* the lines processDocument hands to the paragraph strategy
paragraphInput == slice(lines, startLineIndex)

\* the lines and paragraphs the table and the aggressive strategy read
tableInput == FilterNonBlank(split(text, "\n"))
aggressiveInput == splitParagraphs(text)

\* a line or paragraph that carries a step number: no header row, and one of
\* the step patterns matches it
isStepLine(line) == ~isHeaderRow(trim(line)) /\ matchStep(trim(line)).ok

\* the step numbers of the step lines of ls from position i on, in order
RECURSIVE stepsFrom(_, _)
stepsFrom(ls, i) ==
  IF i > Len(ls) THEN <<>>
  ELSE IF isStepLine(ls[i]) THEN <<matchStep(trim(ls[i])).num>> \o stepsFrom(ls, i + 1)
  ELSE stepsFrom(ls, i + 1)

\* a line that starts with one of the four special headings
isSpecial(s) ==
  test(toolsPattern(s)) \/ test(imtPattern(s)) \/ test(keyPointsPattern(s)) \/ test(notePattern(s))

hasReference(task) == figureNumbersFrom(task.activity, 1, TRUE) # <<>>

\* the identifiers listed in an attachment
attachmentIds(task) == IF task.attachment = "" THEN <<>> ELSE split(task.attachment, ", ")

imageNumbers == {images[j].task_no : j \in 1..Len(images)}

\* two task lists that differ at most in attachment and hasImage
sameButImages(a, b) ==
  /\ Len(a) = Len(b)
  /\ \A i \in 1..Len(a) :
       [a[i] EXCEPT !.attachment = "", !.hasImage = FALSE] = [b[i] EXCEPT !.attachment = "", !.hasImage = FALSE]

(***************************************************************************)
(* C1                                                                      *)
(***************************************************************************)
C1Order ==
  IF hasTableStructure THEN <<"table", "paragraph", "aggressive">> ELSE <<"paragraph", "table", "aggressive">>

\* C1: the strategies run one after another in the order table, paragraph,
\* aggressive when the detector says table-like and paragraph, table,
\* aggressive otherwise; a strategy runs only after every earlier one returned
\* no task; the cascade stops at the first strategy that returns a task, and
\* the tasks processDocument returns are that strategy's tasks (with their
\* images mapped).
C1_CascadeOrder ==
  pc \in {"cascade", "map", "done"} =>
    /\ Len(log) <= 3
    /\ \A i \in 1..Len(log) : log[i].name = C1Order[i]
    /\ \A i \in 1..(Len(log) - 1) : log[i].tasks = <<>>
    /\ pc = "cascade" => \A i \in 1..Len(log) : log[i].tasks = <<>>
    /\ pc \in {"map", "done"} => Len(log) >= 1 /\ (log[Len(log)].tasks = <<>> => Len(log) = 3)
    /\ pc = "map" => tasks = log[Len(log)].tasks
    /\ pc = "done" => sameButImages(tasks, log[Len(log)].tasks)

\* a table-like document on which the table and the paragraph strategy found
\* nothing and the aggressive strategy, run third, found the returned tasks
C1_Witness == pc = "done" /\ hasTableStructure /\ Len(log) = 3 /\ tasks # <<>>

(***************************************************************************)
(* C2                                                                      *)
(***************************************************************************)
\* C2: the document with the lines 'Title', '1. Open the panel.',
\* '2. See Figure 1 for wiring.', 'Tools used: screwdriver', one media file
\* and assembly id '1' yields exactly the tasks 1.0.001 and 1.0.002; task
\* 1.0.002 has attachment '1.0.001' and hasImage true, and toolsData holds a
\* record for 1.0.002 with tools 'screwdriver'.
C2_EndToEnd ==
  (/\ pc = "done"
   /\ lines = <<"Title", OpenStep, FigureStep, ToolsLine>>
   /\ Len(media) = 1 /\ readable /\ asmId = "1")
  => /\ taskNumbers(tasks) = <<"1.0.001", "1.0.002">>
     /\ tasks[2].attachment = "1.0.001"
     /\ tasks[2].hasImage
     /\ \E i \in 1..Len(toolsData) : toolsData[i] = [task_no |-> "1.0.002", tools |-> "screwdriver"]

(***************************************************************************)
(* C3                                                                      *)
(***************************************************************************)
\* the task list the claim describes for the step numbers steps
C3Filled(ts, steps, id) ==
  /\ taskNumbers(ts) =
       [k \in 1..(steps[Len(steps)] - steps[1] + 1) |-> formatTaskNumber(ToString(steps[1] + k - 1), id)]
  /\ \A k \in 1..Len(ts) :
       (steps[1] + k - 1) \notin Range(steps)
         => ts[k].activity = MissingTaskText /\ ts[k].specification = ""

C3Holds(ts, steps, id) ==
  (steps # <<>> /\ steps[1] > 0 /\ strictlyIncreasing(steps)) => C3Filled(ts, steps, id)

\* C3: when the step lines the paragraph strategy reads carry strictly
\* increasing positive indices s1 < ... < sk, its result holds exactly one
\* task for every integer from s1 to sk, in ascending order; the tasks whose
\* index is no step of the input are placeholders with the missing-task text
\* and an empty specification, and the task in progress at the end of the
\* input is part of the result.
C3_GapFilling ==
  pc = "done" =>
    \A e \in ranAt("paragraph") :
      C3Holds(log[e].tasks, stepsFrom(paragraphInput, extractTasksStartIndex(paragraphInput) + 1), asmId)

(***************************************************************************)
(* C4                                                                      *)
(***************************************************************************)
\* the lines or paragraphs strategy name reads, from the first one its loop
\* examines
unitsOf(name) ==
  IF name = "paragraph"
  THEN SubSeq(paragraphInput, extractTasksStartIndex(paragraphInput) + 1, Len(paragraphInput))
  ELSE IF name = "table" THEN SubSeq(tableInput, tableSkipLines(tableInput) + 1, Len(tableInput))
  ELSE aggressiveInput

ascendingDistinct(ts) ==
  /\ \A i \in 1..(Len(ts) - 1) : stepIndexOf(ts[i].task_no) < stepIndexOf(ts[i + 1].task_no)
  /\ \A i, j \in 1..Len(ts) : i # j => ts[i].task_no # ts[j].task_no

\* C4: whichever strategy ran, when the numbered steps of its input appear
\* with strictly increasing step numbers, the task list it returned is in
\* ascending step-index order and holds no task number twice.
C4_AscendingDistinct ==
  pc = "done" =>
    \A e \in 1..Len(log) :
      strictlyIncreasing(stepsFrom(unitsOf(log[e].name), 1)) => ascendingDistinct(log[e].tasks)

(***************************************************************************)
(* C5                                                                      *)
(***************************************************************************)
\* C5: in the task list processDocument returns, every placeholder task that
\* fills a numbering gap has an empty attachment, hasImage false and an empty
\* specification.
C5_PlaceholdersBare ==
  pc = "done" =>
    \A i \in 1..Len(tasks) :
      tasks[i].activity = MissingTaskText
        => tasks[i].attachment = "" /\ ~tasks[i].hasImage /\ tasks[i].specification = ""

(***************************************************************************)
(* C6                                                                      *)
(***************************************************************************)
C6Ids(ids) ==
  /\ \A k \in 1..Len(ids) : ids[k] \in imageNumbers
  /\ \A k, l \in 1..Len(ids) : k # l => ids[k] # ids[l]

\* C6: after mapImagesToTasks every identifier in a task's attachment is the
\* task_no of an image of the image list, and no identifier is listed twice in
\* one attachment.
C6_AttachmentsExist ==
  pc = "done" => \A i \in 1..Len(tasks) : C6Ids(attachmentIds(tasks[i]))

(***************************************************************************)
(* C7                                                                      *)
(***************************************************************************)
\* the identifiers of the images at the 0-based positions k*c .. min((k+1)*c, m) - 1
C7Block(k, c, m) == [j \in 1..(Min((k + 1) * c, m) - k * c) |-> images[k * c + j].task_no]

C7Even(ts, c, m) ==
  \A k \in 0..(Len(ts) - 1) :
    /\ ts[k + 1].attachment = join(C7Block(k, c, m), ", ")
    /\ ts[k + 1].hasImage = (C7Block(k, c, m) # <<>>)

\* C7: when no task's activity holds a figure reference and there are n >= 1
\* tasks and m >= 1 images, the task at 0-based position k receives exactly
\* the images at positions k*c .. min((k+1)*c, m) - 1 with c = ceil(m/n); when
\* some task has a figure reference, the tasks without one keep an empty
\* attachment.
C7_EvenDistribution ==
  (pc = "done" /\ tasks # <<>>) =>
    IF \A i \in 1..Len(tasks) : ~hasReference(tasks[i])
    THEN images # <<>> => C7Even(tasks, (Len(images) + Len(tasks) - 1) \div Len(tasks), Len(images))
    ELSE \A i \in 1..Len(tasks) : ~hasReference(tasks[i]) => tasks[i].attachment = ""

(***************************************************************************)
(* C8                                                                      *)
(***************************************************************************)
\* C8: when processDocument ends with tasks and with images, at least one
\* returned task has hasImage true and a non-empty attachment.
C8_SomeTaskHasImage ==
  (pc = "done" /\ tasks # <<>> /\ images # <<>>)
    => \E i \in 1..Len(tasks) : tasks[i].hasImage /\ tasks[i].attachment # ""

\* several tasks without a figure reference and an image: the image is handed
\* out by the even distribution
C8_Witness ==
  /\ pc = "done"
  /\ Len(tasks) >= 2
  /\ images # <<>>
  /\ \A i \in 1..Len(tasks) : ~hasReference(tasks[i])
  /\ \E i \in 1..Len(tasks) : tasks[i].hasImage

(***************************************************************************)
(* C9                                                                      *)
(***************************************************************************)
\* C9: no strategy returns a task made of a line or paragraph that starts with
\* 'Tools used:', 'IMT used:', 'Key points:' or 'Note:'.
C9_SpecialNeverTask ==
  pc = "done" =>
    \A e \in 1..Len(log) : \A i \in 1..Len(log[e].tasks) : ~isSpecial(log[e].tasks[i].activity)

(***************************************************************************)
(* C10                                                                     *)
(***************************************************************************)
\* the loop state of extractTasks before line i of ls
C10ParagraphBefore(ls, i) ==
  extractTasksLoop([ tasks |-> <<>>, currentTaskNum |-> Null, currentTask |-> "",
                     lastFoundTaskNum |-> 0, currentSpecification |-> "",
                     toolsData |-> <<>>, imtData |-> <<>> ],
                   SubSeq(ls, 1, i - 1), extractTasksStartIndex(ls) + 1, docTitle, asmId)

\* the loop state of extractTasksFromTable before line i of ls
C10TableBefore(ls, i) ==
  tableLoop([tasks |-> <<>>, toolsData |-> <<>>, imtData |-> <<>>],
            SubSeq(ls, 1, i - 1), tableSkipLines(ls) + 1, docTitle, asmId)

\* what the claim says a tools or IMT line does to the loop state
C10Appended(before, after, line, no) ==
  /\ after.tasks = before.tasks
  /\ IF test(toolsPattern(line))
     THEN /\ after.toolsData =
               Append(before.toolsData, [task_no |-> no, tools |-> stripPrefix(line, toolsPattern(line))])
          /\ after.imtData = before.imtData
     ELSE /\ after.imtData =
               Append(before.imtData, [task_no |-> no, imt |-> stripPrefix(line, imtPattern(line))])
          /\ after.toolsData = before.toolsData

\* line i of ls is a tools or IMT line right after a step line with a positive index
C10Case(ls, i) ==
  /\ isStepLine(ls[i - 1])
  /\ matchStep(trim(ls[i - 1])).num > 0
  /\ test(toolsPattern(trim(ls[i]))) \/ test(imtPattern(trim(ls[i])))

C10TaskNo(ls, i) == formatTaskNumber(ToString(matchStep(trim(ls[i - 1])).num), asmId)

\* C10: in the paragraph and in the table strategy, a 'Tools used: X' or
\* 'IMT used: X' line right after a recognized task with a positive step index
\* appends exactly one record, with that task's formatted number and X, to its
\* side table, leaves the rows already there and the other side table as they
\* were, and adds no task.
C10_ToolsRecord ==
  pc = "done" =>
    /\ ranAt("paragraph") # {} =>
         \A i \in (extractTasksStartIndex(paragraphInput) + 2)..Len(paragraphInput) :
           C10Case(paragraphInput, i) =>
             C10Appended(C10ParagraphBefore(paragraphInput, i),
                         extractTasksLine(C10ParagraphBefore(paragraphInput, i), paragraphInput[i], docTitle, asmId),
                         trim(paragraphInput[i]), C10TaskNo(paragraphInput, i))
    /\ ranAt("table") # {} =>
         \A i \in (tableSkipLines(tableInput) + 2)..Len(tableInput) :
           C10Case(tableInput, i) =>
             C10Appended(C10TableBefore(tableInput, i),
                         tableLine(C10TableBefore(tableInput, i), tableInput[i], docTitle, asmId),
                         trim(tableInput[i]), C10TaskNo(tableInput, i))

(***************************************************************************)
(* C11                                                                     *)
(***************************************************************************)
isAnnotation(u) == test(keyPointsPattern(u)) \/ test(notePattern(u))

\* the labelled text of an annotation line
annotationOf(u) ==
  IF test(keyPointsPattern(u)) THEN "Key points: " \o stripPrefix(u, keyPointsPattern(u))
  ELSE "Note: " \o stripPrefix(u, notePattern(u))

\* the state of the aggressive first pass before paragraph i of us
C11AggressiveBefore(us, i) ==
  aggressiveLoop([ tasks |-> <<>>, taskIndex |-> 1, currentTaskNum |-> Null,
                   currentSpecification |-> "", toolsData |-> <<>>, imtData |-> <<>> ],
                 SubSeq(us, 1, i - 1), 1, docTitle, asmId)

\* whether unit i of us is the step of an emitted task of strategy name: a
\* step line with text after its number in the paragraph strategy, a line or
\* paragraph at which a task is pushed in the other two
startsTask(name, us, i) ==
  IF name = "paragraph"
  THEN isStepLine(us[i]) /\ trim(From(trim(us[i]), matchStep(trim(us[i])).len + 1)) # ""
  ELSE IF name = "table"
       THEN Len(tableLine([tasks |-> <<>>, toolsData |-> <<>>, imtData |-> <<>>],
                          us[i], docTitle, asmId).tasks) = 1
       ELSE Len(aggressiveParagraph(C11AggressiveBefore(us, i), us[i], docTitle, asmId).tasks)
              > Len(C11AggressiveBefore(us, i).tasks)

\* the positions of the steps of the emitted tasks, in order
C11Starts(name, us) == SelectSeq([i \in 1..Len(us) |-> i], LAMBDA i : startsTask(name, us, i))

\* the labelled annotations among the units i..j of us, joined by newlines
RECURSIVE C11Annotations(_, _, _)
C11Annotations(us, i, j) ==
  IF i > j THEN <<>>
  ELSE (IF isAnnotation(trim(us[i])) THEN <<annotationOf(trim(us[i]))>> ELSE <<>>)
       \o C11Annotations(us, i + 1, j)

\* the position of the first step after position p, Len(us) + 1 when none
C11NextStep(name, us, p) ==
  First({j \in (p + 1)..(Len(us) + 1) :
           j > Len(us) \/ startsTask(name, us, j) \/ (name = "paragraph" /\ isStepLine(us[j]))})

\* the specification of the task whose step is the k-th of starts
C11Expected(name, us, starts, k) ==
  join(C11Annotations(us, starts[k] + 1, C11NextStep(name, us, starts[k]) - 1), "\n")

\* the tasks of a result that are no gap placeholders
C11Real(ts) == SelectSeq(ts, LAMBDA t : t.activity # MissingTaskText)

C11Run(name, ts, us, starts) ==
  starts # <<>> =>
    /\ Len(C11Real(ts)) = Len(starts)
    /\ \A k \in 1..Len(starts) : C11Real(ts)[k].specification = C11Expected(name, us, starts, k)

\* C11: in every strategy run that found tasks at steps of its input, the
\* specification of each emitted task is exactly the labelled 'Key points:'
\* and 'Note:' annotations between that task's step and the next step, joined
\* by newlines in input order; no annotation of an earlier task shows up in a
\* later task's specification.
C11_SpecificationPerTask ==
  pc = "done" =>
    \A e \in 1..Len(log) :
      C11Run(log[e].name, log[e].tasks, unitsOf(log[e].name), C11Starts(log[e].name, unitsOf(log[e].name)))

\* the same for the runs of one strategy
C11Only(name) ==
  pc = "done" =>
    \A e \in ranAt(name) :
      C11Run(name, log[e].tasks, unitsOf(name), C11Starts(name, unitsOf(name)))

(***************************************************************************)
(* C12                                                                     *)
(***************************************************************************)
\* a paragraph of at least the minimum length that begins with an action verb
isActionParagraph(p) == Len(trim(p)) >= 10 /\ \E v \in ActionVerbs : Lit(trim(p), 1, v) # 0

\* C12: when the aggressive strategy runs third, after the table and the
\* paragraph strategy returned no task, and the text holds a paragraph of at
\* least 10 characters that begins with one of the action verbs, the
\* aggressive strategy returns at least one task.
C12_AggressiveFindsAction ==
  (/\ pc = "done"
   /\ Len(log) = 3
   /\ \E i \in 1..Len(aggressiveInput) : isActionParagraph(aggressiveInput[i]))
  => log[3].tasks # <<>>

\* ---------------------------------------------------------------------------
\* formatTaskNumber on its own: every step index up to MaxStep, under
\* assembly ids of one and of two characters
\* ---------------------------------------------------------------------------

MaxStep == 1010

FormatIds == {"1", "12"}

\* no document is being processed
NoDocument ==
  /\ text = ""
  /\ media = <<>>
  /\ readable = FALSE
  /\ parsable = FALSE
  /\ asmId = "1"
  /\ pc = "idle"
  /\ Fresh
  /\ results = <<>>

FormatInit ==
  /\ NoDocument
  /\ NoPage
  /\ formatIn \in [stepNumber : 1..MaxStep, assemblySequenceId : FormatIds]
  /\ formatOut = ""
  /\ NoUploader

\* formatTaskNumber(currentTaskNum.toString(), assemblySequenceId)
FormatTaskNumber ==
  /\ formatOut = ""
  /\ formatOut' = formatTaskNumber(ToString(formatIn.stepNumber), formatIn.assemblySequenceId)
  /\ UNCHANGED << docVars, results, uiVars, formatIn, uploader >>

FormatNext == FormatTaskNumber

FormatSpec == FormatInit /\ [][FormatNext]_vars

\* the part of a formatted task number after "<id>.0."
stepPart(formatted, id) == From(formatted, Len(id) + 4)

\* C13: formatTaskNumber(n, id) is id, then ".0.", then n padded with
\* zeros to three digits: the step part consists of digits and has the value
\* n, it has exactly three digits when n is at most 999 and is n written in
\* full when n is above 999, and no other step index in 1..999 gives the
\* same string under the same id.
C13_FormatTaskNumber ==
  formatOut # "" =>
    /\ Sub(formatOut, 1, Len(formatIn.assemblySequenceId) + 3) = formatIn.assemblySequenceId \o ".0."
    /\ \A k \in 1..Len(stepPart(formatOut, formatIn.assemblySequenceId)) :
         Ch(stepPart(formatOut, formatIn.assemblySequenceId), k) \in Digit
    /\ parseInt(stepPart(formatOut, formatIn.assemblySequenceId)) = formatIn.stepNumber
    /\ formatIn.stepNumber <= 999 => Len(stepPart(formatOut, formatIn.assemblySequenceId)) = 3
    /\ formatIn.stepNumber > 999 =>
         stepPart(formatOut, formatIn.assemblySequenceId) = ToString(formatIn.stepNumber)
    /\ formatIn.stepNumber <= 999 =>
         \A m \in 1..999 :
           m # formatIn.stepNumber =>
             formatTaskNumber(ToString(m), formatIn.assemblySequenceId) # formatOut

\* step 7 of assembly 12 was formatted with two padding zeros
C13_Witness == formatIn.stepNumber = 7 /\ formatOut = "12.0.007"

\* ---------------------------------------------------------------------------
\* processDocument called again and again by one caller
\* ---------------------------------------------------------------------------

MaxCalls == 3

\* the uploaded files of the calls: steps with a tools line and a figure
\* reference, prose with a note, and an empty document
RerunDocs ==
  { [text |-> "Panel Assembly\n1. Open the panel.\nTools used: screwdriver\n2. See Figure 1 for wiring.\n",
     media |-> <<"image1.png", "image2.png">>],
    [text |-> "Panel Assembly\n\nCheck the oil level before starting.\n\nNote: wear gloves\n\n",
     media |-> <<"image1.png">>],
    [text |-> "", media |-> <<>>] }

RerunInit ==
  /\ \E d \in RerunDocs : text = d.text /\ media = d.media
  /\ readable = TRUE
  /\ parsable = TRUE
  /\ asmId \in AssemblyIds
  /\ pc = "start"
  /\ Fresh
  /\ results = <<>>
  /\ NoPage
  /\ NoFormat
  /\ NoUploader

\* 982-988 and 989-992: what the call hands to its caller
returned ==
  IF pc = "done"
  THEN [ok |-> TRUE, tasks |-> tasks, images |-> images, docTitle |-> docTitle,
        toolsData |-> toolsData, imtData |-> imtData, error |-> ""]
  ELSE [ok |-> FALSE, tasks |-> <<>>, images |-> <<>>, docTitle |-> "",
        toolsData |-> <<>>, imtData |-> <<>>, error |-> error]

\* the call returns or throws: the caller keeps the arguments and the outcome
Return ==
  /\ pc \in {"done", "failed"}
  /\ results' = Append(results, [text |-> text, media |-> media, asmId |-> asmId, out |-> returned])
  /\ pc' = "returned"
  /\ UNCHANGED << inputs, uiVars, formatVars, uploader, lines, docTitle, startLineIndex, images, hasTableStructure,
                  methodsToTry, tasks, toolsData, imtData, log, error >>

\* the caller calls processDocument on a file once more; nothing but the
\* code of the call sets its locals
CallAgain(d) ==
  /\ pc = "returned"
  /\ Len(results) < MaxCalls
  /\ text' = d.text
  /\ media' = d.media
  /\ pc' = "start"
  /\ log' = <<>>
  /\ error' = ""
  /\ UNCHANGED << readable, asmId, parsable, others, lines, docTitle, startLineIndex, images,
                  hasTableStructure, methodsToTry, tasks, toolsData, imtData >>

RerunNext ==
  \/ Next
  \/ Return
  \/ \E d \in RerunDocs : CallAgain(d)

RerunSpec == RerunInit /\ [][RerunNext]_vars

\* C14: two calls of processDocument on the same document with the same
\* assembly sequence id hand their caller the same outcome (the same tasks
\* with the same attachments, the same images with the same task numbers,
\* the same side tables or the same error), whatever calls ran in between.
C14_SameOutcome ==
  \A i, j \in 1..Len(results) :
    (results[i].text = results[j].text /\ results[i].media = results[j].media
       /\ results[i].asmId = results[j].asmId)
    => results[i].out = results[j].out

\* the document with a tools line and a figure reference was processed
\* first and third, with another document in between, and the third call
\* returned tasks with attachments and a tools record
C14_Witness ==
  /\ Len(results) = 3
  /\ results[1].text = results[3].text
  /\ results[2].text # results[1].text
  /\ results[2].out.ok
  /\ results[3].out.ok
  /\ results[3].out.toolsData # <<>>
  /\ \E t \in 1..Len(results[3].out.tasks) : results[3].out.tasks[t].attachment # ""

C16_EmptyDocumentError ==
  pc = "failed" =>
    /\ (parsable /\ lines = <<>>) => error = EmptyDocumentError
    /\ ~parsable => error # EmptyDocumentError

\* ---------------------------------------------------------------------------
\* The pages: Index.tsx and its revision in part_002 (handleFileSelect), and
\* the page of part_003 (handleFileChange, handleProcessDocument)
\* ---------------------------------------------------------------------------

MaxRuns == 2

Pages == {"Index.tsx", "part_002", "part_003"}

\* the pages whose uploader calls handleFileSelect
IndexPages == {"Index.tsx", "part_002"}

\* the files the user uploads: steps and an image, prose without a task, and
\* an empty document
UiDocs ==
  << [text |-> "Panel Assembly\n1. Open the panel.\n2. Close the panel.\n", media |-> <<"image1.png">>],
     [text |-> "Panel Assembly\n\nCheck bolts\n\n", media |-> <<>>],
     [text |-> "", media |-> <<>>] >>

\* the values of the field assemblySequenceId: Index.tsx 280-288 and part_002
\* 287-295 use <input type="number">, whose value is "" unless the typed text
\* is a number; part_003 170-175 uses a text input
IdsOf(p) ==
  IF p = "part_003" THEN {"", "abc", "1", "0", "-3", "1.5", "1e3"}
  ELSE {"", "1", "0", "-3", "1.5", "1e3"}

FormsOf(p) ==
  {[assemblySequenceId |-> i, assemblyName |-> "Unit Assembly"] : i \in IdsOf(p)}
    \cup {[assemblySequenceId |-> "1", assemblyName |-> ""]}

\* a Blob | null state: no blob, the spreadsheet, the archive
NoBlob == "null"
ExcelBlob == "xlsx"
ZipBlob == "zip"

\* the useState initial values (Index.tsx 18-31, part_002 33-45, part_003 22-31)
InitialState ==
  [file |-> 0, status |-> "idle", progress |-> 0, tasks |-> <<>>, docTitle |-> "",
   errorMessage |-> "", downloadPackage |-> NoBlob, excelFile |-> NoBlob, isProcessing |-> FALSE]

InitialForm == [assemblySequenceId |-> "1", assemblyName |-> ""]

UiInit ==
  /\ NoDocument
  /\ NoFormat
  /\ NoUploader
  /\ page \in Pages
  /\ form = InitialForm
  /\ ui = InitialState
  /\ uiPc = "idle"
  /\ closure = [ui |-> InitialState, form |-> InitialForm]
  /\ toasts = <<>>
  /\ started = <<>>
  /\ writers = "none"

\* Number(s) of a string is NaN: s is neither blank, nor Infinity, nor a
\* decimal literal with optional sign, fraction and exponent
isNaNNumber(s) ==
  LET t == trim(s)
      a == Opt(t, 1, {"+", "-"})
      intEnd == Star(t, a, Digit)
      dot == Opt(t, intEnd, {"."})
      fracEnd == Star(t, dot, Digit)
      mantissa == intEnd > a \/ (dot > intEnd /\ fracEnd > dot)
      expEnd == IF Ch(t, fracEnd) \in {"e", "E"}
                THEN Plus(t, Opt(t, fracEnd + 1, {"+", "-"}), Digit)
                ELSE fracEnd
  IN  /\ t # ""
      /\ t \notin {"Infinity", "+Infinity", "-Infinity"}
      /\ ~(mantissa /\ expEnd = Len(t) + 1)

\* Index.tsx 45, part_002 59: !assemblySequenceId || isNaN(Number(assemblySequenceId))
invalidId(id) == id = "" \/ isNaNNumber(id)

\* the toasts
InvalidIdToast ==
  [title |-> "Invalid Assembly Sequence ID",
   description |-> "Please enter a valid number for the Assembly Sequence ID"]
MissingNameToast ==
  [title |-> "Missing Assembly Name",
   description |-> "Please enter a name for the assembly to use as the description"]
MissingNameToast3 ==
  [title |-> "Missing Assembly Name", description |-> "Please enter an assembly name."]
NoFileToast ==
  [title |-> "No File Selected", description |-> "Please select a document to process."]
CompleteToast(n) ==
  [title |-> "Processing complete", description |-> ToString(n) \o " tasks extracted successfully."]
FailedToast(message) == [title |-> "Processing failed", description |-> message]
ProcessedToast(n, m) ==
  [title |-> "Document Processed",
   description |-> "Extracted " \o ToString(n) \o " tasks and " \o ToString(m) \o " images."]
ErrorToast(message) == [title |-> "Processing Error", description |-> message]

\* Index.tsx 125, part_002 139
NoTasksError == "No tasks could be extracted from the document. Please check the file format or ensure it contains numbered steps or a table structure."
\* part_002 166
DownloadFilesError == "Failed to create download files. Please try again or check file format."
\* docxProcessor.ts 1804
ExcelError == "Failed to generate Excel file"
\* what zip.generateAsync of 1832 rejects with
ArchiveError == "Can't read the data of 'Unit Assembly.xlsx'. Is it in a supported JavaScript type (String, Blob, ArrayBuffer, etc) ?"

\* a || b of two strings
orElse(a, b) == IF a # "" THEN a ELSE b

\* Index.tsx 36-43, part_002 50-57: the setters at the head of handleFileSelect
cleared(u, d) ==
  [u EXCEPT !.file = d, !.status = "parsing", !.progress = 10, !.tasks = <<>>, !.docTitle = "",
            !.errorMessage = "", !.downloadPackage = NoBlob, !.excelFile = NoBlob]

\* Index.tsx 160-165, part_002 178-182: the setters of the catch
failure(u, message) ==
  [u EXCEPT !.status = "error", !.progress = 0,
            !.errorMessage = orElse(message, "Unknown error occurred")]

\* Index.tsx 98-103, part_002 112-117: every task gets the assembly name as description
described(ts, name) == [i \in 1..Len(ts) |-> [ts[i] EXCEPT !.description = name]]

\* the call processDocument(file, assemblySequenceId) begins
startCall(d, id) ==
  /\ text' = UiDocs[d].text
  /\ media' = UiDocs[d].media
  /\ readable' = TRUE
  /\ parsable' = TRUE
  /\ asmId' = id
  /\ pc' = "start"
  /\ log' = <<>>
  /\ error' = ""
  /\ started' = Append(started, id)
  /\ UNCHANGED << lines, docTitle, startLineIndex, images, hasTableStructure, methodsToTry,
                  tasks, toolsData, imtData >>

\* no call of processDocument begins or ends
noCall == UNCHANGED << docVars, started >>

\* the finished call is left
endCall ==
  /\ pc' = "idle"
  /\ UNCHANGED << text, media, readable, asmId, parsable, lines, docTitle, startLineIndex, images,
                  hasTableStructure, methodsToTry, tasks, toolsData, imtData, log, error, started >>

\* Index.tsx 35-95, part_002 49-109: handleFileSelect up to the call of
\* processDocument; processPythonDocument always throws, so that the
\* fallback of the catch runs
HandleFileSelect(d) ==
  /\ page \in IndexPages
  /\ uiPc = "idle"
  /\ ui.status = "idle"
  /\ Len(toasts) < MaxRuns
  /\ closure' = [ui |-> ui, form |-> form]
  /\ writers' = "none"
  /\ IF invalidId(form.assemblySequenceId)
     THEN /\ toasts' = Append(toasts, InvalidIdToast)
          /\ ui' = [cleared(ui, d) EXCEPT !.status = "idle"]
          /\ uiPc' = "idle"
          /\ noCall
     ELSE IF trim(form.assemblyName) = ""
     THEN /\ toasts' = Append(toasts, MissingNameToast)
          /\ ui' = [cleared(ui, d) EXCEPT !.status = "idle"]
          /\ uiPc' = "idle"
          /\ noCall
     ELSE /\ toasts' = toasts
          /\ ui' = [cleared(ui, d) EXCEPT !.progress = 30]
          /\ uiPc' = "processing"
          /\ startCall(d, form.assemblySequenceId)
  /\ UNCHANGED << page, form, results, formatVars, uploader >>

\* Index.tsx 134: if (!downloadPackage); part_002 148: if (!excelFile); both
\* read the state the handler was created with
writersSkipped ==
  IF page = "Index.tsx" THEN closure.ui.downloadPackage # NoBlob ELSE closure.ui.excelFile # NoBlob

\* Index.tsx 95-137 and 160-171, part_002 109-151 and 178-189: handleFileSelect
\* from the return of processDocument to the call of generateExcelFile
AfterProcessDocument ==
  /\ page \in IndexPages
  /\ uiPc = "processing"
  /\ pc \in {"done", "failed"}
  /\ endCall
  /\ IF pc = "failed"
     THEN /\ ui' = failure(ui, error)
          /\ toasts' = Append(toasts, FailedToast(orElse(error, "Unknown error occurred")))
          /\ uiPc' = "idle"
     ELSE IF Len(tasks) = 0
     THEN /\ ui' = failure(ui, NoTasksError)
          /\ toasts' = Append(toasts, FailedToast(NoTasksError))
          /\ uiPc' = "idle"
     ELSE IF writersSkipped
     THEN /\ ui' = [ui EXCEPT !.tasks = described(tasks, closure.form.assemblyName),
                              !.docTitle = orElse(docTitle, orElse(closure.form.assemblyName, "Unnamed Document")),
                              !.status = "complete", !.progress = 100]
          /\ toasts' = Append(toasts, CompleteToast(Len(tasks)))
          /\ uiPc' = "idle"
     ELSE /\ ui' = [ui EXCEPT !.tasks = described(tasks, closure.form.assemblyName),
                              !.docTitle = orElse(docTitle, orElse(closure.form.assemblyName, "Unnamed Document")),
                              !.status = "generating", !.progress = 80]
          /\ toasts' = toasts
          /\ uiPc' = "excel"
  /\ UNCHANGED << page, form, closure, writers, results, formatVars, uploader >>

\* the error the catch of handleFileSelect receives when a writer threw e:
\* part_002 164-167 replaces it
writerError(e) == IF page = "part_002" THEN DownloadFilesError ELSE e

\* Index.tsx 139-140, part_002 154-155: generateExcelFile returns or throws.
\* In Index.tsx the name is bound to the local function of 175-189, which
\* builds a string and does not throw
AfterGenerateExcelFile(throws) ==
  /\ page \in IndexPages
  /\ uiPc = "excel"
  /\ throws => page = "part_002"
  /\ writers' = IF throws THEN "excel" ELSE writers
  /\ IF throws
     THEN /\ ui' = failure(ui, writerError(ExcelError))
          /\ toasts' = Append(toasts, FailedToast(writerError(ExcelError)))
          /\ uiPc' = "idle"
     ELSE /\ ui' = [ui EXCEPT !.excelFile = ExcelBlob]
          /\ toasts' = toasts
          /\ uiPc' = "zip"
  /\ noCall
  /\ UNCHANGED << page, form, closure, results, formatVars, uploader >>

\* Index.tsx 143-159, part_002 158-177: createDownloadPackage returns or throws
AfterCreateDownloadPackage(throws) ==
  /\ page \in IndexPages
  /\ uiPc = "zip"
  /\ writers' = IF throws THEN "zip" ELSE writers
  /\ IF throws
     THEN /\ ui' = failure(ui, writerError(ArchiveError))
          /\ toasts' = Append(toasts, FailedToast(writerError(ArchiveError)))
     ELSE /\ ui' = [ui EXCEPT !.downloadPackage = ZipBlob, !.status = "complete", !.progress = 100]
          /\ toasts' = Append(toasts, CompleteToast(Len(ui.tasks)))
  /\ uiPc' = "idle"
  /\ noCall
  /\ UNCHANGED << page, form, closure, results, formatVars, uploader >>

\* Index.tsx 405-412, part_002 411-418: the button "Process Another Document"
ProcessAnother ==
  /\ page \in IndexPages
  /\ uiPc = "idle"
  /\ ui.status = "complete"
  /\ ui' = [ui EXCEPT !.status = "idle"]
  /\ noCall
  /\ UNCHANGED << page, form, uiPc, closure, toasts, writers, results, formatVars, uploader >>

\* the user types into the fields; Index.tsx and part_002 show them only
\* while status is 'idle'
EditForm(f) ==
  /\ uiPc = "idle"
  /\ page \in IndexPages => ui.status = "idle"
  /\ Len(toasts) < MaxRuns
  /\ f \in FormsOf(page)
  /\ f # form
  /\ form' = f
  /\ noCall
  /\ UNCHANGED << page, ui, uiPc, closure, toasts, writers, results, formatVars, uploader >>

\* part_003 48-53; the uploader is rendered without isProcessing (229-233), so
\* that it takes a file also while processDocument is pending
HandleFileChange(d) ==
  /\ page = "part_003"
  /\ uiPc \in {"idle", "processing"}
  /\ Len(toasts) < MaxRuns
  /\ ui.file # d
  /\ ui' = [ui EXCEPT !.file = d, !.tasks = <<>>, !.docTitle = ""]
  /\ noCall
  /\ UNCHANGED << page, form, uiPc, closure, toasts, writers, results, formatVars, uploader >>

\* part_003 55-76: handleProcessDocument up to the call of processDocument;
\* the button is disabled while isProcessing || !file (240)
HandleProcessDocument ==
  /\ page = "part_003"
  /\ uiPc = "idle"
  /\ ~ui.isProcessing
  /\ ui.file # 0
  /\ Len(toasts) < MaxRuns
  /\ closure' = [ui |-> ui, form |-> form]
  /\ IF ui.file = 0
     THEN /\ toasts' = Append(toasts, NoFileToast)
          /\ ui' = ui
          /\ uiPc' = "idle"
          /\ noCall
     ELSE IF trim(form.assemblyName) = ""
     THEN /\ toasts' = Append(toasts, MissingNameToast3)
          /\ ui' = ui
          /\ uiPc' = "idle"
          /\ noCall
     ELSE /\ toasts' = toasts
          /\ ui' = [ui EXCEPT !.isProcessing = TRUE]
          /\ uiPc' = "processing"
          /\ startCall(ui.file, form.assemblySequenceId)
  /\ UNCHANGED << page, form, writers, results, formatVars, uploader >>

\* part_003 76-94: handleProcessDocument from the return of processDocument
AfterProcessDocument3 ==
  /\ page = "part_003"
  /\ uiPc = "processing"
  /\ pc \in {"done", "failed"}
  /\ endCall
  /\ IF pc = "failed"
     THEN /\ ui' = [ui EXCEPT !.isProcessing = FALSE]
          /\ toasts' = Append(toasts, ErrorToast(error))
     ELSE /\ ui' = [ui EXCEPT !.tasks = tasks, !.docTitle = orElse(docTitle, closure.form.assemblyName),
                              !.isProcessing = FALSE]
          /\ toasts' = Append(toasts, ProcessedToast(Len(tasks), Len(images)))
  /\ uiPc' = "idle"
  /\ UNCHANGED << page, form, closure, writers, results, formatVars, uploader >>

UiNext ==
  \/ Next
  \/ \E d \in 1..Len(UiDocs) : HandleFileSelect(d)
  \/ AfterProcessDocument
  \/ \E throws \in BOOLEAN : AfterGenerateExcelFile(throws)
  \/ \E throws \in BOOLEAN : AfterCreateDownloadPackage(throws)
  \/ ProcessAnother
  \/ \E f \in FormsOf(page) : EditForm(f)
  \/ \E d \in 1..Len(UiDocs) : HandleFileChange(d)
  \/ HandleProcessDocument
  \/ AfterProcessDocument3

UiSpec == UiInit /\ [][UiNext]_vars

\* the toast shown last
lastToast == toasts[Len(toasts)]

\* the handler that ran last was rejected by the validation of handleFileSelect
rejected ==
  /\ page \in IndexPages
  /\ uiPc = "idle"
  /\ toasts # <<>>
  /\ lastToast \in {InvalidIdToast, MissingNameToast}

\* the handler that ran last called processDocument, the call has returned
\* and the handler has ended
processed ==
  /\ uiPc = "idle"
  /\ toasts # <<>>
  /\ lastToast.title \in {"Processing failed", "Processing complete", "Document Processed", "Processing Error"}

\* all three strategies ran in the last call and each returned an empty list
allStrategiesEmpty == Len(log) = 3 /\ \A e \in 1..3 : log[e].tasks = <<>>

\* the error outcome of C17 on the pages with a status
C17OnIndex ==
  (page \in IndexPages /\ processed /\ allStrategiesEmpty) =>
    /\ ui.status = "error"
    /\ ui.errorMessage = NoTasksError
    /\ lastToast = FailedToast(NoTasksError)
    /\ ui.tasks = <<>>
    /\ ui.downloadPackage = NoBlob
    /\ ui.excelFile = NoBlob
    /\ Len(started) <= Len(toasts)

\* C17: when all three strategies returned an empty list, the run of the
\* handler ends in the error outcome: on the pages with a status the status
\* is 'error' with the 'No tasks could be extracted' message, on the page of
\* part_003 the error toast is shown; no task list is set, no package is
\* generated, and processDocument was called once per run.
C17_NoTasksIsError ==
  /\ C17OnIndex
  /\ (page = "part_003" /\ processed /\ allStrategiesEmpty) =>
       /\ lastToast.title = "Processing Error"
       /\ ui.tasks = <<>>
       /\ Len(started) <= Len(toasts)

\* C18: after handleFileSelect rejected a missing or non-numeric assembly
\* sequence id or an empty assembly name, processDocument has not been
\* called and the state of the page is the state before the call; and
\* handleFileSelect never goes on with such an id or name.
C18_RejectionKeepsState ==
  /\ rejected =>
       /\ pc = "idle"
       /\ Len(started) < Len(toasts)
       /\ ui = closure.ui
  /\ (page \in IndexPages /\ uiPc # "idle") =>
       /\ ~invalidId(closure.form.assemblySequenceId)
       /\ trim(closure.form.assemblyName) # ""

\* the rejection of C18 without its claim on the state
C18Rejects ==
  /\ rejected => pc = "idle" /\ Len(started) < Len(toasts)
  /\ (page \in IndexPages /\ uiPc # "idle") =>
       /\ ~invalidId(closure.form.assemblySequenceId)
       /\ trim(closure.form.assemblyName) # ""

\* a string of decimal digits whose value is positive
isPositiveInteger(id) ==
  /\ id # ""
  /\ \A k \in 1..Len(id) : Ch(id, k) \in Digit
  /\ parseInt(id) > 0

\* C19: every call of processDocument made by a page was started with an
\* assemblySequenceId that is a positive integer.
C19_PositiveIntegerId == \A k \in 1..Len(started) : isPositiveInteger(started[k])

\* the outcome of C20 on the page named
C20On(p) ==
  (page = p /\ uiPc = "idle" /\ writers # "none") =>
    /\ ui.status = "error"
    /\ ui.errorMessage = DownloadFilesError
    /\ ui.tasks # <<>>
    /\ ui.downloadPackage = NoBlob

\* C20: when the spreadsheet or the archive writer threw after the tasks
\* were extracted, the run of handleFileSelect ends with status 'error' and
\* the message 'Failed to create download files...', the tasks stay set and
\* no download package is set.
C20_WriterFailure == C20On("Index.tsx") /\ C20On("part_002")

C20OnPart002 == C20On("part_002")

\* ---------------------------------------------------------------------------
\* The FileUploader component on its own: FileUploader.tsx, which keeps the
\* selected file until 'Process Document' is clicked, and its revision in
\* part_000, which hands an accepted file on at once
\* ---------------------------------------------------------------------------

MaxEvents == 3

UploaderRevisions == {"FileUploader.tsx", "part_000"}

WordType == "application/vnd.openxmlformats-officedocument.wordprocessingml.document"

\* the files the user drops or picks: two Word documents, a PDF, and a
\* .docx file for which the browser reports no type
UploadFiles ==
  << [name |-> "sop.docx", type |-> WordType],
     [name |-> "other.docx", type |-> WordType],
     [name |-> "sop.pdf", type |-> "application/pdf"],
     [name |-> "legacy.docx", type |-> ""] >>

UploaderInit ==
  /\ NoDocument
  /\ NoPage
  /\ NoFormat
  /\ \E r \in UploaderRevisions :
       uploader = [revision |-> r, selectedFile |-> 0, passed |-> <<>>, toasts |-> <<>>,
                   events |-> 0, event |-> [kind |-> "none", file |-> 0],
                   before |-> [selectedFile |-> 0, passed |-> <<>>]]

\* a file that passes for a Word document by the end of its name alone
acceptedByName(file) ==
  Len(file.name) >= 5 /\ Sub(file.name, Len(file.name) - 4, Len(file.name)) = ".docx"

\* FileUploader.tsx 42, part_000 40: the check of file.type
accepted(file) == file.type = WordType

\* FileUploader.tsx 41-56 (validateAndSetFile) and part_000 39-54
\* (processFile) on file f in the component state u
validateAndSetFile(u, f) ==
  IF ~accepted(UploadFiles[f])
  THEN [u EXCEPT !.toasts = Append(u.toasts, "Invalid file format")]
  ELSE IF u.revision = "FileUploader.tsx"
       THEN [u EXCEPT !.selectedFile = f, !.toasts = Append(u.toasts, "File selected")]
       ELSE [u EXCEPT !.passed = Append(u.passed, f), !.toasts = Append(u.toasts, "File uploaded")]

\* the event kind on file f is recorded with the state it found
recorded(u, kind, f) ==
  [u EXCEPT !.events = u.events + 1, !.event = [kind |-> kind, file |-> f],
            !.before = [selectedFile |-> u.selectedFile, passed |-> u.passed]]

\* FileUploader.tsx 26-33, part_000 24-31: a file is dropped on the zone
HandleDrop(f) ==
  /\ uploader.events < MaxEvents
  /\ uploader' = validateAndSetFile(recorded(uploader, "drop", f), f)
  /\ UNCHANGED << docVars, results, uiVars, formatVars >>

\* FileUploader.tsx 35-39, part_000 33-37: a file is picked in the dialog
HandleInputChange(f) ==
  /\ uploader.events < MaxEvents
  /\ uploader' = validateAndSetFile(recorded(uploader, "change", f), f)
  /\ UNCHANGED << docVars, results, uiVars, formatVars >>

\* FileUploader.tsx 58-62: the button 'Process Document', shown while a
\* file is selected (101, 113-117)
HandleProcess ==
  /\ uploader.revision = "FileUploader.tsx"
  /\ uploader.selectedFile # 0
  /\ uploader.events < MaxEvents
  /\ uploader' = [recorded(uploader, "process", uploader.selectedFile)
                    EXCEPT !.passed = Append(uploader.passed, uploader.selectedFile)]
  /\ UNCHANGED << docVars, results, uiVars, formatVars >>

UploaderNext ==
  \/ \E f \in 1..Len(UploadFiles) : HandleDrop(f)
  \/ \E f \in 1..Len(UploadFiles) : HandleInputChange(f)
  \/ HandleProcess

UploaderSpec == UploaderInit /\ [][UploaderNext]_vars

\* C21: every file the uploader handed to onFileSelect has the
\* Word-document MIME type; and after a drop or a pick of a file of another
\* type the rejection toast is the last one shown, nothing was handed to
\* onFileSelect and the selected file is the one selected before.
C21_OnlyWordDocuments ==
  /\ \A k \in 1..Len(uploader.passed) : UploadFiles[uploader.passed[k]].type = WordType
  /\ (uploader.event.kind \in {"drop", "change"}
        /\ UploadFiles[uploader.event.file].type # WordType) =>
       /\ uploader.toasts[Len(uploader.toasts)] = "Invalid file format"
       /\ uploader.passed = uploader.before.passed
       /\ uploader.selectedFile = uploader.before.selectedFile

\* a Word document was selected and handed on, and then a .docx file
\* without the Word type was dropped
C21_Witness ==
  /\ uploader.revision = "FileUploader.tsx"
  /\ uploader.event = [kind |-> "drop", file |-> 4]
  /\ uploader.selectedFile = 1
  /\ uploader.passed = <<1>>

\* ---------------------------------------------------------------------------
\* extractImages on documents that mention several figures, with fewer,
\* as many and more media files than figure numbers
\* ---------------------------------------------------------------------------

MaxMentions == 2
MaxImages == 3

\* lines that mention figures 3, 1, 12 and 1, and none
WiringLine == "See Figure 3 for wiring."
BoltsLine == "Fig. 1 shows the bolts."
CompareLine == "Compare image 12 with Figure 1."
ImageLines == {WiringLine, BoltsLine, CompareLine, "Open the panel."}

ImagesInit ==
  /\ \E b \in SeqsUpTo(ImageLines, MaxMentions) : text = rawText(<<"Panel Assembly">> \o b, "\n")
  /\ \E n \in 0..MaxImages : media = mediaFiles(n)
  /\ readable \in BOOLEAN
  /\ parsable = TRUE
  /\ asmId \in AssemblyIds
  /\ pc = "start"
  /\ Fresh
  /\ results = <<>>
  /\ NoPage
  /\ NoFormat
  /\ NoUploader

\* processDocument up to the return of extractImages
ImagesNext ==
  \/ ReadText
  \/ PickTitle
  \/ ExtractImages

ImagesSpec == ImagesInit /\ [][ImagesNext]_vars

\* 1736-1753
getContentTypeFromPath(path) ==
  LET extension == toLowerCase(split(path, ".")[Len(split(path, "."))])
  IN  IF extension = "png" THEN "image/png"
      ELSE IF extension \in {"jpg", "jpeg"} THEN "image/jpeg"
      ELSE IF extension = "gif" THEN "image/gif"
      ELSE IF extension = "bmp" THEN "image/bmp"
      ELSE IF extension = "svg" THEN "image/svg+xml"
      ELSE "application/octet-stream"

\* 1825-1828: the names createDownloadPackage writes into the folder images/
archiveNames(imgs) ==
  [i \in 1..Len(imgs) |->
     imgs[i].task_no \o "."
       \o orElse(IF Len(split(getContentTypeFromPath(imgs[i].imageData), "/")) >= 2
                 THEN split(getContentTypeFromPath(imgs[i].imageData), "/")[2] ELSE "", "png")]

\* the figure numbers a line of ImageLines mentions
C22Mentions(line) ==
  IF line = WiringLine THEN {3}
  ELSE IF line = BoltsLine THEN {1}
  ELSE IF line = CompareLine THEN {12, 1}
  ELSE {}

\* the distinct figure numbers the text mentions, ascending
C22Mentioned == UNION {C22Mentions(l) : l \in Range(split(text, "\n"))}

C22Figures ==
  CHOOSE q \in [1..Cardinality(C22Mentioned) -> C22Mentioned] :
    /\ {q[i] : i \in 1..Cardinality(C22Mentioned)} = C22Mentioned
    /\ \A i \in 1..(Cardinality(C22Mentioned) - 1) : q[i] < q[i + 1]

\* the figure number an image is keyed by
C22Key(image) == parseInt(split(image.task_no, "-")[3])

\* the number the i-th media file is to be keyed by, given the ascending figure numbers F
C22Expected(F, i) ==
  IF Len(F) = 0 THEN i
  ELSE IF i <= Len(F) THEN F[i]
  ELSE F[Len(F)] + (i - Len(F))

\* C22: with f distinct figure numbers and m media files in a readable
\* container, extractImages returns m records, the i-th for the i-th media
\* file: keyed by the i-th smallest figure number for i <= f, by the largest
\* figure number plus 1, 2, ... for the media files beyond f, and by 1..m when
\* f = 0; with f > m the m smallest figure numbers are the keys.
C22_ImageKeys ==
  (pc = "detect" /\ readable) =>
    /\ Len(images) = Len(media)
    /\ \A i \in 1..Len(images) :
         /\ images[i].imageData = media[i]
         /\ C22Key(images[i]) = C22Expected(C22Figures, i)
         /\ images[i].task_no = asmId \o "-0-" \o padStart3(ToString(C22Expected(C22Figures, i)))

\* three media files for the figure numbers 1 and 12, mentioned out of order
C22_Witness ==
  /\ pc = "detect"
  /\ readable
  /\ C22Figures = <<1, 12>>
  /\ Len(media) = 3
  /\ C22Key(images[3]) = 13

MaxVariantLines == 3

SlNoLine == "Sl. No. 1 Fit the cover."
SlNoColonLine == "SL NO 2: Fit the frame."
ProcedureLine == "Procedure 3 Torque the bolts."

VariantFamilies ==
  << [ titles |-> {<<>>, <<"Panel Assembly">>}, leading |-> <<>>,
       vocab |-> {SlNoLine, SlNoColonLine, ProcedureLine},
       seps |-> {"\n", "\n\n"}, media |-> {0}, readable |-> {TRUE} ],
     [ titles |-> {<<"Panel Assembly">>}, leading |-> <<>>,
       vocab |-> {BareStep, OpenStep, ToolsLine, ImtLine},
       seps |-> {"\n"}, media |-> {0}, readable |-> {TRUE} ] >>

VariantInit ==
  /\ \E k \in 1..Len(VariantFamilies) :
       \E t \in VariantFamilies[k].titles : \E b \in SeqsUpTo(VariantFamilies[k].vocab, MaxVariantLines) :
         \E sep \in VariantFamilies[k].seps : \E n \in VariantFamilies[k].media :
           /\ text = rawText(t \o VariantFamilies[k].leading \o b, sep)
           /\ media = mediaFiles(n)
           /\ readable \in VariantFamilies[k].readable
  /\ parsable = TRUE
  /\ asmId \in AssemblyIds
  /\ pc = "start"
  /\ Fresh
  /\ results = <<>>
  /\ NoPage
  /\ NoFormat
  /\ NoUploader

VariantSpec == VariantInit /\ [][Next]_vars

\* the step index and the text of a line in a variant format
C23Step(line) ==
  IF line = SlNoLine THEN [n |-> 1, text |-> "Fit the cover."]
  ELSE IF line = SlNoColonLine THEN [n |-> 2, text |-> "Fit the frame."]
  ELSE [n |-> 3, text |-> "Torque the bolts."]

\* the lines of the text in a variant format, the title aside
C23Lines == {l \in Range(FilterNonBlank(split(text, "\n"))) : l \in {SlNoLine, SlNoColonLine, ProcedureLine}}

\* the tasks list holds a task with the step index and the text of the line
C23Found(ts, line) ==
  \E t \in 1..Len(ts) :
    /\ stepIndexOf(ts[t].task_no) = C23Step(line).n
    /\ ts[t].activity = C23Step(line).text

\* C23: every line 'Sl. No. N <text>', 'SL NO N: <text>' or 'Procedure N
\* <text>' of the document yields, in the result of processDocument, a task
\* with step index N and activity <text>.
C23_VariantSteps == pc = "done" => \A l \in C23Lines : C23Found(tasks, l)

\* the same for the result of each strategy that ran
C23AnyStrategy == pc = "done" => \E e \in 1..Len(log) : \E l \in C23Lines : C23Found(log[e].tasks, l)

\* a line matches one of the three indicators when tested on its own, with
\* fresh patterns
C25OnItsOwn(line) ==
  \/ testGlobal(line, 0, 1).found
  \/ testGlobal(line, 0, 2).found
  \/ numberedListIndicator(line)

C25Count(ls) == Cardinality({i \in 1..Len(ls) : C25OnItsOwn(ls[i])})

\* C25: detectTableStructure returns true exactly when the lines of the
\* text that match an indicator on their own are more than 20% of all lines.
C25_StatelessDetection ==
  pc \in {"cascade", "map", "done"} =>
    (hasTableStructure <=> 10 * C25Count(split(text, "\n")) > 2 * Len(split(text, "\n")))

\* a line of the table content that is not a header row, not a special
\* paragraph, and carries a step index
C26StepLine(line) ==
  LET t == trim(line)
  IN /\ ~isHeaderRow(t)
     /\ ~test(toolsPattern(t)) /\ ~test(imtPattern(t))
     /\ ~test(keyPointsPattern(t)) /\ ~test(notePattern(t))
     /\ (matchStep(t).ok \/ tableColumns(t).ok)

C26Num(line) ==
  IF matchStep(trim(line)).ok THEN matchStep(trim(line)).num ELSE tableColumns(trim(line)).num

C26Expected == SelectSeq(FilterNonBlank(split(text, "\n")), C26StepLine)

\* C26: the table strategy returns exactly one task, in input order, for
\* every line that is not a header row and carries a step index, wherever
\* header-like lines stand in the text.
C26_OneTaskPerStepLine ==
  \A e \in 1..Len(log) :
    log[e].name = "table" =>
      /\ Len(log[e].tasks) = Len(C26Expected)
      /\ \A k \in 1..Len(C26Expected) :
           log[e].tasks[k].task_no = formatTaskNumber(ToString(C26Num(C26Expected[k])), asmId)

C30Keyed(records, list) ==
  \A k \in 1..Len(records) : \E t \in 1..Len(list) : list[t].task_no = records[k].task_no

\* what the strategy collects when it is given empty side tables
C30Alone(name) ==
  IF name = "table" THEN extractTasksFromTable(text, docTitle, images, asmId, <<>>, <<>>)
  ELSE IF name = "paragraph"
       THEN extractTasks(slice(lines, startLineIndex), docTitle, images, asmId, <<>>, <<>>)
       ELSE extractTasksAggressively(text, docTitle, images, asmId, <<>>, <<>>)

\* C30: every tools and IMT record of the result of processDocument is keyed
\* by the task_no of a task of the returned task list, and the returned side
\* tables hold only what the strategy whose tasks are returned collected.
C30_SideTablesKeyed ==
  pc = "done" =>
    /\ C30Keyed(toolsData, tasks) /\ C30Keyed(imtData, tasks)
    /\ toolsData = C30Alone(log[Len(log)].name).toolsData
    /\ imtData = C30Alone(log[Len(log)].name).imtData

\* C27: on the pages of handleFileSelect, whenever the status is 'complete'
\* the download package and the spreadsheet of the finished run are in the
\* state, in every run of the page session.
C27_PackageOnComplete ==
  (page \in IndexPages /\ ui.status = "complete") =>
    (ui.downloadPackage = ZipBlob /\ ui.excelFile = ExcelBlob)

\* what the user can do on the pages of handleFileSelect
C28UserAction ==
  \/ \E d \in 1..Len(UiDocs) : HandleFileSelect(d)
  \/ ProcessAnother
  \/ \E f \in FormsOf(page) : EditForm(f)

\* C28: no status is a dead end: whenever a run has ended at a status other
\* than 'idle', 'error' included, the user has an action that leaves it.
C28_NoDeadEnd ==
  (page \in IndexPages /\ uiPc = "idle" /\ ui.status # "idle") =>
    ENABLED (C28UserAction /\ ui'.status # ui.status)

\* C24: on part_003 the displayed task list is empty or was extracted from
\* the file that is selected now; the result of a run whose file the user
\* has replaced in the meantime is never applied.
C24_AbandonedRunDiscarded ==
  (page = "part_003" /\ ui.tasks # <<>>) =>
    (ui.file # 0 /\ text = UiDocs[ui.file].text)

====
